---- MODULE Spec2Model ----
(***************************************************************************)
(* Model of the filesystem MCP server (mcp-servers/filesystem-server):     *)
(* SecurityManager (security.py), FileSystemService (service.py) and the   *)
(* HTTP rendering of read_file and the batch endpoint (api.py), and the     *)
(* watch-event fan-out of the service on the asyncio loop.                 *)
(*                                                                         *)
(* Strings are sequences of one-character strings, so that strip, lstrip,  *)
(* the pathlib split into parts, startswith('.') and Path.suffix are       *)
(* computed the way the code computes them.  An absolute path is the       *)
(* sequence of its parts below "/".  The filesystem maps the physical      *)
(* location of every existing entry to a file, directory or symlink node.  *)
(***************************************************************************)
EXTENDS Integers, Sequences, FiniteSets, TLC

VARIABLES fs, pre, last, nops, batch, watch_subscribers, queues, tasks, ready, handled,
          streams, observed, writer, creators

\* the last /batch request with its response
bvars == <<batch>>

\* the subscriber list, the queues ever made, the publish tasks, the loop's ready
\* queue and the notifications the watchdog handler has dealt with
wvars == <<watch_subscribers, queues, tasks, ready, handled>>

\* the /watch/events connections, the notifications the observer has not dispatched
\* yet, and the create_file call that stands between its open and its close
xvars == <<streams, observed, writer, creators>>

vars == <<fs, pre, last, nops, batch, watch_subscribers, queues, tasks, ready, handled,
          streams, observed, writer, creators>>

\* Optional[Path]: None, or a path
None == [ok |-> FALSE, path |-> <<>>]

Some(p) == [ok |-> TRUE, path |-> p]

-----------------------------------------------------------------------------
(* Bounds *)

\* number of service calls in one behaviour
MaxOps == 2

\* config.max_file_size, scaled down to bytes that the payloads can exceed
MaxFileSize == 2

\* number of operations in one batch request
MaxBatchLen == 3

\* queues ever handed out by subscribe_to_watch_events in one behaviour
MaxQueues == 2

\* events published (tasks running _notify_watch_event) in one behaviour
MaxEvents == 3

\* asyncio.Queue(maxsize=1000), scaled down so that a queue fills up
QueueMaxSize == 1

\* raw notifications the watchdog handler is given in one behaviour
MaxRaw == 3

-----------------------------------------------------------------------------
(* Strings, names and paths *)

Sep == "/"
BackSlash == "\\"
Space == " "
DotCh == "."

DotDot == <<".", ".">>
CurDir == <<".">>

\* segment names used in the layouts and the candidates
NData == <<"d">>
NOut == <<"o">>
NEtc == <<"e">>
NA == <<"a">>
NBlk == <<"b">>
NTxt == <<"f", ".", "t">>
NExe == <<"g", ".", "x">>
NHid == <<".", "h">>
NLnk == <<"l">>
NHidLnk == <<".", "l">>
NBack == <<"k">>
NNewT == <<"n", ".", "t">>
NMiss == <<"m">>
NUpper == <<"X">>

\* str.startswith('.')
StartsWithDot(s) == Len(s) > 0 /\ Head(s) = DotCh

RECURSIVE StripLeft(_, _)
\* remove the leading characters of s that belong to chars (str.lstrip)
StripLeft(s, chars) ==
    IF s = <<>> THEN <<>>
    ELSE IF Head(s) \in chars THEN StripLeft(Tail(s), chars) ELSE s

RECURSIVE StripRight(_, _)
\* remove the trailing characters of s that belong to chars (str.rstrip)
StripRight(s, chars) ==
    IF s = <<>> THEN <<>>
    ELSE IF s[Len(s)] \in chars THEN StripRight(SubSeq(s, 1, Len(s) - 1), chars) ELSE s

\* str.strip(): whitespace off both ends
Strip(s) == StripLeft(StripRight(s, {Space}), {Space})

RECURSIVE SplitAcc(_, _, _)
\* split s on '/', cur being the segment under construction
SplitAcc(s, cur, acc) ==
    IF s = <<>> THEN Append(acc, cur)
    ELSE IF Head(s) = Sep THEN SplitAcc(Tail(s), <<>>, Append(acc, cur))
    ELSE SplitAcc(Tail(s), Append(cur, Head(s)), acc)

\* pathlib's parse of a relative string: split on '/', drop '' and '.'
PathParts(s) == SelectSeq(SplitAcc(s, <<>>, <<>>), LAMBDA seg : seg # <<>> /\ seg # CurDir)

RECURSIVE Join(_)
\* the string seg1/seg2/...
Join(segs) ==
    IF segs = <<>> THEN <<>>
    ELSE IF Len(segs) = 1 THEN segs[1]
    ELSE segs[1] \o <<Sep>> \o Join(Tail(segs))

Parent(p) == IF p = <<>> THEN <<>> ELSE SubSeq(p, 1, Len(p) - 1)

Name(p) == IF p = <<>> THEN <<>> ELSE p[Len(p)]

\* p is q or a descendant of q (PurePath.relative_to succeeds)
IsUnder(p, q) == Len(q) <= Len(p) /\ SubSeq(p, 1, Len(q)) = q

\* PurePath.relative_to(q), for p under q
RelativeTo(p, q) == SubSeq(p, Len(q) + 1, Len(p))

Range(s) == {s[i] : i \in 1..Len(s)}

-----------------------------------------------------------------------------
(* Configuration *)

\* SecurityManager.base_dir: resolved sandbox root
BaseDir == <<NData>>

\* SecurityManager._blocked_paths_set
BlockedPaths == {<<NEtc>>, <<NData, NBlk>>}

\* SecurityManager._allowed_extensions_set (lower-cased, no dot)
AllowedExtensions == {<<"t">>}

-----------------------------------------------------------------------------
(* Filesystem *)

FileNode(bytes) == [kind |-> "file", data |-> bytes, target |-> <<>>]
DirNode == [kind |-> "dir", data |-> <<>>, target |-> <<>>]
LinkNode(t) == [kind |-> "link", data |-> <<>>, target |-> t]

RECURSIVE ResolveFrom(_, _, _)
\* os.path.realpath, non strict: acc is the resolved prefix, rest the parts to go
ResolveFrom(f, acc, rest) ==
    IF rest = <<>> THEN acc
    ELSE LET part == Head(rest)
             np == Append(acc, part)
         IN IF part = DotDot THEN ResolveFrom(f, Parent(acc), Tail(rest))
            ELSE IF np \in DOMAIN f /\ f[np].kind = "link"
                 THEN ResolveFrom(f, <<>>, f[np].target \o Tail(rest))
                 ELSE ResolveFrom(f, np, Tail(rest))

\* Path.resolve()
Resolve(f, p) == ResolveFrom(f, <<>>, p)

\* Path.exists(): follows symlinks
Exists(f, p) == LET r == Resolve(f, p) IN r = <<>> \/ r \in DOMAIN f

\* Path.is_file()
IsFile(f, p) == LET r == Resolve(f, p) IN r \in DOMAIN f /\ f[r].kind = "file"

\* Path.is_dir()
IsDir(f, p) == LET r == Resolve(f, p) IN r = <<>> \/ (r \in DOMAIN f /\ f[r].kind = "dir")

\* where the directory entry named by p lives (the final component not followed)
EntryLoc(f, p) == IF p = <<>> THEN <<>> ELSE Append(Resolve(f, Parent(p)), Name(p))

-----------------------------------------------------------------------------
(* SecurityManager *)

\* is_path_safe with every check made on the literal path (no resolve)
IsPathSafeLiteral(f, path) ==
    /\ IsUnder(path, BaseDir)
    /\ DotDot \notin Range(path)
    /\ \A b \in BlockedPaths : ~IsUnder(path, b)
    /\ \A i \in 1..Len(RelativeTo(path, BaseDir)) : ~StartsWithDot(RelativeTo(path, BaseDir)[i])

\* is_path_safe without the '..' component check
IsPathSafeNoDotDot(f, path) ==
    LET normalized_path == Resolve(f, path)
    IN /\ IsUnder(normalized_path, BaseDir)
       /\ \A b \in BlockedPaths : ~IsUnder(normalized_path, b)
       /\ \A i \in 1..Len(RelativeTo(normalized_path, BaseDir)) :
              ~StartsWithDot(RelativeTo(normalized_path, BaseDir)[i])

\* is_path_safe without the hidden-segment check
IsPathSafeNoHidden(f, path) ==
    LET normalized_path == Resolve(f, path)
    IN /\ IsUnder(normalized_path, BaseDir)
       /\ DotDot \notin Range(path)
       /\ \A b \in BlockedPaths : ~IsUnder(normalized_path, b)

\* SecurityManager.is_path_safe
IsPathSafe(f, path) ==
    LET normalized_path == Resolve(f, path)
    IN IF ~IsUnder(normalized_path, BaseDir) THEN FALSE
       ELSE LET relative_path == RelativeTo(normalized_path, BaseDir)
            IN IF DotDot \in Range(path) THEN FALSE
               ELSE IF \E b \in BlockedPaths : IsUnder(normalized_path, b) THEN FALSE
               ELSE IF \E i \in 1..Len(relative_path) : StartsWithDot(relative_path[i]) THEN FALSE
               ELSE TRUE

\* relative_path.strip().lstrip('/\\')
CleanPath(s) == StripLeft(Strip(s), {Sep, BackSlash})

\* self.base_dir / clean_path
JoinBase(s) == BaseDir \o PathParts(CleanPath(s))

\* SecurityManager.get_safe_path: the joined path, or None
GetSafePath(f, s) == IF IsPathSafe(f, JoinBase(s)) THEN Some(JoinBase(s)) ELSE None

\* str.lower(), one character
LowerCh(ch) == IF ch = "T" THEN "t" ELSE IF ch = "X" THEN "x" ELSE ch

\* str.lower()
Lower(s) == [i \in 1..Len(s) |-> LowerCh(s[i])]

\* str.rfind('.'), 1-based, 0 when there is no dot
LastDot(s) == IF \E i \in 1..Len(s) : s[i] = DotCh
              THEN CHOOSE i \in 1..Len(s) : s[i] = DotCh /\ \A j \in (i + 1)..Len(s) : s[j] # DotCh
              ELSE 0

\* PurePath.suffix: from the last dot of the name, unless it leads or ends the name
Suffix(p) ==
    LET name == Name(p)
        i == LastDot(name)
    IN IF 1 < i /\ i < Len(name) THEN SubSeq(name, i, Len(name)) ELSE <<>>

\* validate_file_extension with the membership test dropped
AnyExtension(p) == TRUE

\* validate_file_extension without the lower() of the suffix
ValidateFileExtensionCaseSensitive(allowed, p) ==
    IF allowed = {} THEN TRUE
    ELSE StripLeft(Suffix(p), {DotCh}) \in allowed

\* SecurityManager.validate_file_extension under the allowed set it was built with
ValidateFileExtensionIn(allowed, p) ==
    IF allowed = {} THEN TRUE
    ELSE StripLeft(Lower(Suffix(p)), {DotCh}) \in allowed

\* SecurityManager.validate_file_extension
ValidateFileExtension(p) == ValidateFileExtensionIn(AllowedExtensions, p)

\* validate_file_size with the limit itself excluded
ValidateFileSizeBelow(n) == 0 <= n /\ n < MaxFileSize

\* SecurityManager.validate_file_size
ValidateFileSize(n) == 0 <= n /\ n <= MaxFileSize

\* os.access(p, mode): the server owns every entry, so access follows existence
OsAccess(f, p) == Exists(f, p)

\* can_read_file with the extension check of a write added
CanReadFileAllowedOnly(f, p) ==
    IF ~IsPathSafe(f, p) THEN FALSE
    ELSE IF ~Exists(f, p) THEN FALSE
    ELSE IF ~IsFile(f, p) THEN FALSE
    ELSE IF ~ValidateFileExtension(p) THEN FALSE
    ELSE OsAccess(f, p)

\* SecurityManager.can_read_file
CanReadFile(f, p) ==
    IF ~IsPathSafe(f, p) THEN FALSE
    ELSE IF ~Exists(f, p) THEN FALSE
    ELSE IF ~IsFile(f, p) THEN FALSE
    ELSE OsAccess(f, p)

\* SecurityManager.can_delete_file
CanDeleteFile(f, p) ==
    IF ~IsPathSafe(f, p) THEN FALSE
    ELSE IF ~Exists(f, p) THEN FALSE
    ELSE OsAccess(f, Parent(p))

\* SecurityManager.can_write_file
CanWriteFile(f, p) ==
    IF ~IsPathSafe(f, p) THEN FALSE
    ELSE IF Exists(f, p) THEN IsFile(f, p) /\ OsAccess(f, p)
    ELSE Exists(f, Parent(p)) /\ OsAccess(f, Parent(p))

\* the operations validate_path_operation knows
PathOperations == {"read", "write", "delete"}

\* SecurityManager.validate_path_operation: (verdict, message), the message named by
\* its kind: unsafe 'Небезопасный путь', unreadable 'Невозможно прочитать файл',
\* unwritable 'Невозможно записать в файл', extension 'Запрещенное расширение файла',
\* undeletable 'Невозможно удалить файл', ok the empty message
ValidatePathOperation(f, operation, path) ==
    IF ~IsPathSafe(f, path) THEN [ok |-> FALSE, reason |-> "unsafe"]
    ELSE IF operation = "read" /\ ~CanReadFile(f, path)
         THEN [ok |-> FALSE, reason |-> "unreadable"]
    ELSE IF operation = "write" /\ ~CanWriteFile(f, path)
         THEN [ok |-> FALSE, reason |-> "unwritable"]
    ELSE IF operation = "write" /\ ~ValidateFileExtension(path)
         THEN [ok |-> FALSE, reason |-> "extension"]
    ELSE IF operation = "delete" /\ ~CanDeleteFile(f, path)
         THEN [ok |-> FALSE, reason |-> "undeletable"]
    ELSE [ok |-> TRUE, reason |-> "ok"]

-----------------------------------------------------------------------------
(* Text, bytes and hashes *)

ChCR == "\r"
ChLF == "\n"
ChEAcute == "e'"

Utf8 == "utf-8"
Latin1 == "latin-1"

\* one character encoded by str.encode
EncodeCh(ch, enc) ==
    IF ch = ChEAcute THEN (IF enc = Utf8 THEN <<"C3", "A9">> ELSE <<"E9">>) ELSE <<ch>>

RECURSIVE Encode(_, _)
\* str.encode(enc)
Encode(s, enc) == IF s = <<>> THEN <<>> ELSE EncodeCh(Head(s), enc) \o Encode(Tail(s), enc)

RECURSIVE Utf8Valid(_)
\* the bytes decode as UTF-8
Utf8Valid(b) ==
    IF b = <<>> THEN TRUE
    ELSE IF Head(b) = "C3" THEN Len(b) >= 2 /\ b[2] = "A9" /\ Utf8Valid(Tail(Tail(b)))
    ELSE IF Head(b) \in {"A9", "E9"} THEN FALSE
    ELSE Utf8Valid(Tail(b))

RECURSIVE DecodeUtf8(_)
\* bytes.decode('utf-8'), for valid bytes
DecodeUtf8(b) ==
    IF b = <<>> THEN <<>>
    ELSE IF Head(b) = "C3" THEN <<ChEAcute>> \o DecodeUtf8(Tail(Tail(b)))
    ELSE <<Head(b)>> \o DecodeUtf8(Tail(b))

RECURSIVE UniversalNewlines(_)
\* text-mode read with newline=None: '\r\n' and '\r' become '\n'
UniversalNewlines(s) ==
    IF s = <<>> THEN <<>>
    ELSE IF Head(s) = ChCR
         THEN IF Len(s) >= 2 /\ s[2] = ChLF
              THEN <<ChLF>> \o UniversalNewlines(Tail(Tail(s)))
              ELSE <<ChLF>> \o UniversalNewlines(Tail(s))
         ELSE <<Head(s)>> \o UniversalNewlines(Tail(s))

\* the text a read in mode 'r', encoding utf-8, returns for the bytes
ReadText(b) == UniversalNewlines(DecodeUtf8(b))

\* hashlib.sha256(...).hexdigest(): injective on the digested bytes
Sha256(b) == [sha256 |-> b]

NoHash == [sha256 |-> <<"none">>]

\* SecurityManager.calculate_checksum
CalculateChecksum(content) == Sha256(Encode(content, Utf8))

-----------------------------------------------------------------------------
(* Filesystem calls *)

\* f without the entries in gone
Without(f, gone) == [q \in DOMAIN f \ gone |-> f[q]]

\* f with loc bound to node
With(f, loc, node) == [q \in DOMAIN f \cup {loc} |-> IF q = loc THEN node ELSE f[q]]

\* the locations whose entry differs between f and g
Changed(f, g) ==
    {q \in DOMAIN f \cup DOMAIN g : q \notin DOMAIN f \/ q \notin DOMAIN g \/ f[q] # g[q]}

\* some proper ancestor of the physical location is a regular file or a symlink
ThroughNonDir(f, loc) ==
    \E i \in 1..(Len(loc) - 1) : SubSeq(loc, 1, i) \in DOMAIN f /\ f[SubSeq(loc, 1, i)].kind # "dir"

\* os.mkdir(p): the error name, or "" with the directory made
OsMkdir(f, p) ==
    LET par == Resolve(f, Parent(p))
        loc == Append(par, Name(p))
    IN IF p = <<>> THEN [fs |-> f, err |-> "EEXIST"]
       ELSE IF ThroughNonDir(f, loc) THEN [fs |-> f, err |-> "ENOTDIR"]
       ELSE IF ~(par = <<>> \/ par \in DOMAIN f) THEN [fs |-> f, err |-> "ENOENT"]
       ELSE IF loc \in DOMAIN f THEN [fs |-> f, err |-> "EEXIST"]
       ELSE [fs |-> With(f, loc, DirNode), err |-> ""]

RECURSIVE Mkdir(_, _, _, _)
\* Path.mkdir(parents, exist_ok)
Mkdir(f, p, parents, exist_ok) ==
    LET r == OsMkdir(f, p)
    IN IF r.err = "" THEN r
       ELSE IF r.err = "ENOENT"
            THEN IF ~parents \/ p = <<>> THEN r
                 ELSE LET up == Mkdir(f, Parent(p), TRUE, TRUE)
                      IN IF up.err # "" THEN up ELSE Mkdir(up.fs, p, FALSE, exist_ok)
            ELSE IF ~exist_ok \/ ~IsDir(f, p) THEN r ELSE [fs |-> f, err |-> ""]

\* open(p, 'w') and write: follows a final symlink, truncates or creates
WriteFile(f, p, bytes) ==
    LET loc == Resolve(f, p)
    IN IF loc = <<>> \/ (loc \in DOMAIN f /\ f[loc].kind = "dir") THEN [fs |-> f, err |-> "EISDIR"]
       ELSE IF ThroughNonDir(f, loc) THEN [fs |-> f, err |-> "ENOTDIR"]
       ELSE IF ~(Parent(loc) = <<>> \/ Parent(loc) \in DOMAIN f) THEN [fs |-> f, err |-> "ENOENT"]
       ELSE [fs |-> With(f, loc, FileNode(bytes)), err |-> ""]

\* Path.unlink(): removes the entry itself, a symlink is not followed
Unlink(f, p) == [fs |-> Without(f, {EntryLoc(f, p)}), err |-> ""]

\* rmtree that takes the siblings of the directory with it
RmtreeWithSiblings(f, p) ==
    LET loc == EntryLoc(f, p)
    IN IF loc \in DOMAIN f /\ f[loc].kind = "link" THEN [fs |-> f, err |-> "ESYMLINK"]
       ELSE [fs |-> Without(f, {q \in DOMAIN f : IsUnder(q, Parent(loc)) /\ q # Parent(loc)}),
             err |-> ""]

\* shutil.rmtree(p): refuses a symlink, else removes the tree below the directory
Rmtree(f, p) ==
    LET loc == EntryLoc(f, p)
    IN IF loc \in DOMAIN f /\ f[loc].kind = "link" THEN [fs |-> f, err |-> "ESYMLINK"]
       ELSE [fs |-> Without(f, {q \in DOMAIN f : IsUnder(q, loc)}), err |-> ""]

-----------------------------------------------------------------------------
(* FileSystemService *)

\* what a call hands back: the filesystem after it, the gate's verdict, the outcome
\* kind, the wrapped cause of an I/O failure, returned content, hash and size
Result(f, safe, outcome, cause, content, checksum, size) ==
    [fs |-> f, safe |-> safe, outcome |-> outcome, cause |-> cause,
     content |-> content, checksum |-> checksum, size |-> size]

Fail(f, safe, outcome, cause) == Result(f, safe, outcome, cause, <<>>, NoHash, 0)

\* create_file without the test for an existing target
CreateFileNoExistsCheck(f, cand, content, overwrite, enc) ==
    LET safe == GetSafePath(f, cand)
        file_path == safe.path
        content_size == Len(Encode(content, enc))
    IN IF ~safe.ok THEN Fail(f, safe, "unsafe", "")
       ELSE IF ~ValidateFileExtension(file_path) THEN Fail(f, safe, "extension", "")
       ELSE IF ~ValidateFileSize(content_size) THEN Fail(f, safe, "size", "")
       ELSE LET mk == Mkdir(f, Parent(file_path), TRUE, TRUE)
                w == WriteFile(mk.fs, file_path, Encode(content, enc))
            IN IF mk.err # "" THEN Fail(mk.fs, safe, "io", mk.err)
               ELSE IF w.err # "" THEN Fail(w.fs, safe, "io", w.err)
               ELSE Result(w.fs, safe, "ok", "", <<>>, CalculateChecksum(content), content_size)

\* FileSystemService.create_file
CreateFile(f, cand, content, overwrite, enc) ==
    LET safe == GetSafePath(f, cand)
        file_path == safe.path
        content_size == Len(Encode(content, enc))
    IN IF ~safe.ok THEN Fail(f, safe, "unsafe", "")
       ELSE IF ~ValidateFileExtension(file_path) THEN Fail(f, safe, "extension", "")
       ELSE IF ~ValidateFileSize(content_size) THEN Fail(f, safe, "size", "")
       ELSE IF Exists(f, file_path) /\ ~overwrite THEN Fail(f, safe, "exists", "")
       ELSE LET mk == Mkdir(f, Parent(file_path), TRUE, TRUE)
                w == WriteFile(mk.fs, file_path, Encode(content, enc))
            IN IF mk.err # "" THEN Fail(mk.fs, safe, "io", mk.err)
               ELSE IF w.err # "" THEN Fail(w.fs, safe, "io", w.err)
               ELSE Result(w.fs, safe, "ok", "", <<>>, CalculateChecksum(content), content_size)

\* FileSystemService.read_file: the outcome names the exception raised
ReadFile(f, cand) ==
    LET safe == GetSafePath(f, cand)
        file_path == safe.path
        bytes == f[Resolve(f, file_path)].data
        content == ReadText(bytes)
        file_size == Len(Encode(content, Utf8))
    IN IF ~safe.ok THEN Fail(f, safe, "unsafe", "")
       ELSE IF ~CanReadFile(f, file_path) THEN Fail(f, safe, "forbidden", "")
       ELSE IF ~Utf8Valid(bytes) THEN Fail(f, safe, "io", "decode")
       ELSE IF ~ValidateFileSize(file_size) THEN Fail(f, safe, "io", "size")
       ELSE Result(f, safe, "ok", "", content, CalculateChecksum(content), file_size)

\* update_file without the mkdir of the missing parents
UpdateFileNoMkdir(f, cand, content, enc, create_if_missing) ==
    LET safe == GetSafePath(f, cand)
        file_path == safe.path
        content_size == Len(Encode(content, enc))
        missing == ~Exists(f, file_path)
        w == WriteFile(f, file_path, Encode(content, enc))
    IN IF ~safe.ok THEN Fail(f, safe, "unsafe", "")
       ELSE IF ~ValidateFileExtension(file_path) THEN Fail(f, safe, "extension", "")
       ELSE IF missing /\ ~create_if_missing THEN Fail(f, safe, "notfound", "")
       ELSE IF ~ValidateFileSize(content_size) THEN Fail(f, safe, "size", "")
       ELSE IF w.err # "" THEN Fail(w.fs, safe, "io", w.err)
       ELSE Result(w.fs, safe, "ok", "", <<>>, CalculateChecksum(content), content_size)

\* FileSystemService.update_file
UpdateFile(f, cand, content, enc, create_if_missing) ==
    LET safe == GetSafePath(f, cand)
        file_path == safe.path
        content_size == Len(Encode(content, enc))
        missing == ~Exists(f, file_path)
        mk == IF missing THEN Mkdir(f, Parent(file_path), TRUE, TRUE) ELSE [fs |-> f, err |-> ""]
        w == WriteFile(mk.fs, file_path, Encode(content, enc))
    IN IF ~safe.ok THEN Fail(f, safe, "unsafe", "")
       ELSE IF ~ValidateFileExtension(file_path) THEN Fail(f, safe, "extension", "")
       ELSE IF missing /\ ~create_if_missing THEN Fail(f, safe, "notfound", "")
       ELSE IF mk.err # "" THEN Fail(mk.fs, safe, "io", mk.err)
       ELSE IF ~ValidateFileSize(content_size) THEN Fail(mk.fs, safe, "size", "")
       ELSE IF w.err # "" THEN Fail(w.fs, safe, "io", w.err)
       ELSE Result(w.fs, safe, "ok", "", <<>>, CalculateChecksum(content), content_size)

\* FileSystemService.delete_file
DeleteFile(f, cand) ==
    LET safe == GetSafePath(f, cand)
        file_path == safe.path
        rm == IF IsFile(f, file_path) THEN Unlink(f, file_path) ELSE Rmtree(f, file_path)
    IN IF ~safe.ok THEN Fail(f, safe, "unsafe", "")
       ELSE IF ~CanDeleteFile(f, file_path) THEN Fail(f, safe, "forbidden", "")
       ELSE IF ~IsFile(f, file_path) /\ ~IsDir(f, file_path) THEN Fail(f, safe, "notfound", "")
       ELSE IF rm.err # "" THEN Fail(rm.fs, safe, "io", rm.err)
       ELSE Result(rm.fs, safe, "ok", "", <<>>, NoHash, 0)

\* FileSystemService.create_directory
CreateDirectory(f, cand, recursive) ==
    LET safe == GetSafePath(f, cand)
        dir_path == safe.path
        mk == Mkdir(f, dir_path, recursive, FALSE)
    IN IF ~safe.ok THEN Fail(f, safe, "unsafe", "")
       ELSE IF mk.err = "EEXIST" THEN Fail(mk.fs, safe, "exists", "")
       ELSE IF mk.err # "" THEN Fail(mk.fs, safe, "io", mk.err)
       ELSE Result(mk.fs, safe, "ok", "", <<>>, NoHash, 0)

\* ord(ch) for the characters of the model's names
Ord(ch) ==
    CASE ch = " " -> 32 [] ch = "." -> 46 [] ch = "/" -> 47 [] ch = "T" -> 84 [] ch = "X" -> 88
      [] ch = "\\" -> 92 [] ch = "a" -> 97 [] ch = "b" -> 98 [] ch = "d" -> 100 [] ch = "e" -> 101
      [] ch = "f" -> 102 [] ch = "g" -> 103 [] ch = "k" -> 107 [] ch = "l" -> 108
      [] ch = "m" -> 109 [] ch = "n" -> 110 [] ch = "o" -> 111 [] ch = "t" -> 116
      [] ch = "u" -> 117 [] ch = "x" -> 120 [] OTHER -> 0

RECURSIVE StrLess(_, _)
\* a < b for Python strings
StrLess(a, b) ==
    IF b = <<>> THEN FALSE
    ELSE IF a = <<>> THEN TRUE
    ELSE IF Ord(Head(a)) # Ord(Head(b)) THEN Ord(Head(a)) < Ord(Head(b))
    ELSE StrLess(Tail(a), Tail(b))

RECURSIVE SetToSeq(_)
\* the members of a set in some order (Path.iterdir gives no order)
SetToSeq(S) == IF S = {} THEN <<>> ELSE LET x == CHOOSE x \in S : TRUE IN <<x>> \o SetToSeq(S \ {x})

NoInfo == [present |-> FALSE, name |-> <<>>, path |-> <<>>, size |-> 0,
           is_directory |-> FALSE, checksum |-> NoHash]

\* SecurityManager.calculate_file_checksum: the hash of the bytes on disk
CalculateFileChecksum(f, p) == IF IsFile(f, p) THEN Sha256(f[Resolve(f, p)].data) ELSE NoHash

\* the FileInfo with stat's own size and a hash for a directory too
FileInfoOfStatSize(f, p) ==
    [present |-> TRUE, name |-> Name(p), path |-> RelativeTo(p, BaseDir),
     size |-> IF IsDir(f, p) THEN 1 ELSE Len(f[Resolve(f, p)].data),
     is_directory |-> IsDir(f, p),
     checksum |-> IF IsDir(f, p) THEN Sha256(<<>>) ELSE CalculateFileChecksum(f, p)]

\* the FileInfo built for an existing path (stat follows symlinks)
FileInfoOf(f, p) ==
    [present |-> TRUE, name |-> Name(p), path |-> RelativeTo(p, BaseDir),
     size |-> IF IsDir(f, p) THEN 0 ELSE Len(f[Resolve(f, p)].data),
     is_directory |-> IsDir(f, p),
     checksum |-> IF IsDir(f, p) THEN NoHash ELSE CalculateFileChecksum(f, p)]

NoListing == [files |-> <<>>, directories |-> <<>>, total_count |-> 0]

\* list.sort(key=lambda x: x.name): no lower()
SortByNameCaseSensitive(infos) == SortSeq(infos, LAMBDA x, y : StrLess(x.name, y.name))

\* list.sort(key=lambda x: x.name.lower())
SortByName(infos) == SortSeq(infos, LAMBDA x, y : StrLess(Lower(x.name), Lower(y.name)))

\* list_directory without the skip of dot-prefixed names
ListDirectoryShowHidden(f, cand) ==
    LET safe == GetSafePath(f, IF cand = <<>> THEN CurDir ELSE cand)
        dir_path == safe.path
        loc == Resolve(f, dir_path)
        items == {Append(dir_path, Name(q)) : q \in {q \in DOMAIN f : Len(q) > 0 /\ Parent(q) = loc}}
        infos == {FileInfoOf(f, item) : item \in {item \in items : Exists(f, item)}}
        files == SortByName(SetToSeq({i \in infos : ~i.is_directory}))
        directories == SortByName(SetToSeq({i \in infos : i.is_directory}))
    IN IF ~safe.ok THEN [r |-> Fail(f, safe, "unsafe", ""), listing |-> NoListing]
       ELSE IF ~Exists(f, dir_path) THEN [r |-> Fail(f, safe, "notfound", ""), listing |-> NoListing]
       ELSE IF ~IsDir(f, dir_path) THEN [r |-> Fail(f, safe, "notdir", ""), listing |-> NoListing]
       ELSE [r |-> Result(f, safe, "ok", "", <<>>, NoHash, 0),
             listing |-> [files |-> files, directories |-> directories,
                          total_count |-> Len(files) + Len(directories)]]

\* FileSystemService.list_directory: the outcome names the exception raised
ListDirectory(f, cand) ==
    LET safe == GetSafePath(f, IF cand = <<>> THEN CurDir ELSE cand)
        dir_path == safe.path
        loc == Resolve(f, dir_path)
        items == {Append(dir_path, Name(q)) : q \in {q \in DOMAIN f : Len(q) > 0 /\ Parent(q) = loc}}
        shown == {item \in items : ~StartsWithDot(Name(item))}
        infos == {FileInfoOf(f, item) : item \in shown}
        files == SortByName(SetToSeq({i \in infos : ~i.is_directory}))
        directories == SortByName(SetToSeq({i \in infos : i.is_directory}))
    IN IF ~safe.ok THEN [r |-> Fail(f, safe, "unsafe", ""), listing |-> NoListing]
       ELSE IF ~Exists(f, dir_path) THEN [r |-> Fail(f, safe, "notfound", ""), listing |-> NoListing]
       ELSE IF ~IsDir(f, dir_path) THEN [r |-> Fail(f, safe, "notdir", ""), listing |-> NoListing]
       ELSE IF \E item \in shown : ~Exists(f, item)
            THEN [r |-> Fail(f, safe, "io", "ENOENT"), listing |-> NoListing]
       ELSE [r |-> Result(f, safe, "ok", "", <<>>, NoHash, 0),
             listing |-> [files |-> files, directories |-> directories,
                          total_count |-> Len(files) + Len(directories)]]

\* FileSystemService.get_file_info: NoInfo stands for None
GetFileInfo(f, cand) ==
    LET safe == GetSafePath(f, cand)
    IN IF ~safe.ok \/ ~Exists(f, safe.path)
       THEN [r |-> Fail(f, safe, "none", ""), info |-> NoInfo]
       ELSE [r |-> Result(f, safe, "ok", "", <<>>, NoHash, 0), info |-> FileInfoOf(f, safe.path)]

\* api.read_file: the HTTP status each exception of read_file is rendered as
ReadStatus(outcome) ==
    CASE outcome = "ok" -> 200
      [] outcome = "unsafe" -> 400
      [] outcome = "forbidden" -> 403
      [] outcome = "notfound" -> 404
      [] OTHER -> 500

-----------------------------------------------------------------------------
(* The batch endpoint *)

\* the fields FileOperationResult declares (models.py)
FileOperationResultFields ==
    {"path", "operation", "success", "size", "checksum", "created_at", "modified_at"}

\* FileOperationResult(**kwargs): pydantic keeps the declared fields and ignores the rest
FileOperationResult(kwargs) ==
    [k \in DOMAIN kwargs \cap FileOperationResultFields |-> kwargs[k]]

\* the object a service call returns for r: a failure is built with message=<cause>,
\* a success with size and checksum
ResultObject(r) ==
    IF r.outcome = "ok"
    THEN FileOperationResult([success |-> TRUE, size |-> r.size, checksum |-> r.checksum])
    ELSE FileOperationResult([success |-> FALSE, message |-> r.outcome])

\* '..' in v
HasDotDotSubstring(v) == \E i \in 1..(Len(v) - 1) : v[i] = DotCh /\ v[i + 1] = DotCh

\* FileCreateRequest.validate_path / DirectoryCreateRequest.validate_path accept v
ValidatePath(v) ==
    /\ Strip(v) # <<>>
    /\ Head(v) \notin {Sep, BackSlash}
    /\ ~HasDotDotSubstring(v)

\* one iteration's try block: the request model is built and the service called;
\* raised tells that an exception left the block, error is its text
ServeOperation(f, operation) ==
    LET data == operation.data
        bad(text) == [fs |-> f, raised |-> TRUE, error |-> text, r |-> Fail(f, None, "raised", "")]
        served(r) == [fs |-> r.fs, raised |-> FALSE, error |-> "", r |-> r]
    IN CASE operation.type = "create_file" ->
              IF ~ValidatePath(data.path) THEN bad("validation")
              ELSE served(CreateFile(f, Strip(data.path), data.content, data.flag, data.encoding))
         [] operation.type = "update_file" ->
              served(UpdateFile(f, operation.path, data.content, data.encoding, data.flag))
         [] operation.type = "delete" -> served(DeleteFile(f, operation.path))
         [] operation.type = "create_directory" ->
              IF ~ValidatePath(data.path) THEN bad("validation")
              ELSE served(CreateDirectory(f, Strip(data.path), data.flag))
         [] OTHER -> bad("unknown type")

\* the response under construction: results, errors and the success counter, with the
\* filesystem so far and, per attempted operation, the cause the service named
NoResponse == [fs |-> <<>>, results |-> <<>>, errors |-> <<>>, successful |-> 0, causes |-> <<>>]

\* results.append / errors.append / successful += 1 for an operation served as s
RecordOutcome(acc, operation, s) ==
    LET result == ResultObject(s.r)
        success == ~s.raised /\ result.success
        message == IF s.raised THEN s.error
                   ELSE IF "message" \in DOMAIN result THEN result.message ELSE ""
        error == IF s.raised THEN s.error
                 ELSE IF "message" \in DOMAIN result THEN result.message ELSE "Unknown error"
    IN [fs |-> s.fs,
        results |-> Append(acc.results, [path |-> operation.path, type |-> operation.type,
                                         success |-> success, message |-> message]),
        errors |-> IF success THEN acc.errors
                   ELSE Append(acc.errors, [path |-> operation.path, type |-> operation.type,
                                            error |-> error]),
        successful |-> IF success THEN acc.successful + 1 ELSE acc.successful,
        causes |-> Append(acc.causes, IF s.raised THEN s.error ELSE s.r.outcome)]

\* what one iteration of the loop adds to the response
BatchIteration(acc, operation) == RecordOutcome(acc, operation, ServeOperation(acc.fs, operation))

\* the iteration before i recorded a failure
FailedBefore(i, acc) == i > 1 /\ ~acc.results[i - 1].success

RECURSIVE BatchLoopStopsAlways(_, _, _, _)
\* the loop breaking at the first failure whatever continue_on_error says
BatchLoopStopsAlways(operations, continue_on_error, i, acc) ==
    IF i > Len(operations) \/ FailedBefore(i, acc) THEN acc
    ELSE BatchLoopStopsAlways(operations, continue_on_error, i + 1,
                              BatchIteration(acc, operations[i]))

RECURSIVE BatchLoopNeverStops(_, _, _, _)
\* the loop without its break
BatchLoopNeverStops(operations, continue_on_error, i, acc) ==
    IF i > Len(operations) THEN acc
    ELSE BatchLoopNeverStops(operations, continue_on_error, i + 1,
                             BatchIteration(acc, operations[i]))

RECURSIVE BatchLoop(_, _, _, _)
\* for operation in request.operations, from operation i on: the loop ends with the
\* list, or by the break that follows a failure when continue_on_error is false
BatchLoop(operations, continue_on_error, i, acc) ==
    IF i > Len(operations) \/ (FailedBefore(i, acc) /\ ~continue_on_error) THEN acc
    ELSE BatchLoop(operations, continue_on_error, i + 1, BatchIteration(acc, operations[i]))

\* BatchOperationResponse(...) built from what the loop left, with the filesystem
BatchOperationResponse(operations, done) ==
    [fs |-> done.fs,
     total_operations |-> Len(operations),
     successful_operations |-> done.successful,
     failed_operations |-> Len(operations) - done.successful,
     results |-> done.results,
     errors |-> done.errors,
     causes |-> done.causes]

\* api.batch_operations: the filesystem after the batch and the BatchOperationResponse
BatchOperations(f, operations, continue_on_error) ==
    BatchOperationResponse(operations,
                           BatchLoop(operations, continue_on_error, 1, [NoResponse EXCEPT !.fs = f]))

-----------------------------------------------------------------------------
(* Watch events: subscribers, publish tasks and the watchdog handler *)

\* asyncio.Queue(maxsize): its items and the tasks suspended in put(); kept beside
\* them, the last event its consumer has taken (0: none) and whether unsubscribe was
\* called with it never, once or again
NewQueue == [items |-> <<>>, putters |-> <<>>, taken |-> 0, unsubscribed |-> "never"]

\* Queue.full()
QueueFull(q) == Len(q.items) >= QueueMaxSize

\* a task running _notify_watch_event(event): idx is the position of its iterator
\* over _watch_subscribers, at the queue whose put() it is inside (0: none); kept
\* beside them, born, the number of queues made before the task was created
NewTask == [idx |-> 0, at |-> 0, state |-> "ready", born |-> 0]

\* list.remove(x): the list without the first occurrence of x
ListRemove(list, x) ==
    LET i == CHOOSE i \in 1..Len(list) : list[i] = x /\ \A j \in 1..(i - 1) : list[j] # x
    IN SubSeq(list, 1, i - 1) \o SubSeq(list, i + 1, Len(list))

RECURSIVE NotifyWatchEvent(_, _, _, _)
\* _notify_watch_event for event t, from where the task stands until it finishes or
\* suspends: inside put() it waits while the queue is full and else enqueues; between
\* puts the for loop takes the next element of the list as it is now
NotifyWatchEvent(subs, qs, t, task) ==
    IF task.at # 0
    THEN IF QueueFull(qs[task.at])
         THEN [queues |-> [qs EXCEPT ![task.at].putters = Append(@, t)],
               task |-> [task EXCEPT !.state = "waiting"]]
         ELSE NotifyWatchEvent(subs, [qs EXCEPT ![task.at].items = Append(@, t)], t,
                               [task EXCEPT !.at = 0])
    ELSE IF task.idx >= Len(subs)
         THEN [queues |-> qs, task |-> [task EXCEPT !.idx = 0, !.at = 0, !.state = "done"]]
         ELSE NotifyWatchEvent(subs, qs, t,
                               [task EXCEPT !.idx = @ + 1, !.at = subs[task.idx + 1]])

\* a watchdog FileSystemEvent: dest_path is set for a move
Raw(event_type, src_path, dest_path, is_directory) ==
    [event_type |-> event_type, src_path |-> src_path, dest_path |-> dest_path,
     is_directory |-> is_directory]

\* the directories under the root that g has and f has not, parents first
NewDirs(f, g) ==
    SortSeq(SetToSeq({q \in DOMAIN g \ DOMAIN f : g[q].kind = "dir" /\ IsUnder(q, BaseDir)}),
            LAMBDA x, y : Len(x) < Len(y))

\* the files under the root that g has and f has not, or holds with other bytes
WrittenFiles(f, g) ==
    {q \in DOMAIN g : /\ g[q].kind = "file"
                      /\ IsUnder(q, BaseDir)
                      /\ (q \notin DOMAIN f \/ f[q] # g[q])}

\* what the observer reports for the file at q: created if it is new, modified if
\* bytes were written to it
FileNotifications(f, g, q) ==
    (IF q \notin DOMAIN f THEN <<Raw("created", q, <<>>, FALSE)>> ELSE <<>>)
        \o (IF g[q].data # <<>> THEN <<Raw("modified", q, <<>>, FALSE)>> ELSE <<>>)

\* the notifications of the recursive watch on base_dir for the change from f to g
\* made by one create_file: the parents made by mkdir, then the file
Notifications(f, g) ==
    [i \in 1..Len(NewDirs(f, g)) |-> Raw("created", NewDirs(f, g)[i], <<>>, TRUE)]
        \o (IF WrittenFiles(f, g) = {} THEN <<>>
            ELSE FileNotifications(f, g, CHOOSE q \in WrittenFiles(f, g) : TRUE))

\* asyncio.create_task needs the running loop of the calling thread
CanCreateTask(thread) == thread = "loop"

\* the thread watchdog's Observer calls the handler on
HandlerThread == "observer"

\* FileSystemEventHandler._should_process_event
ShouldProcessEvent(f, src_path) ==
    LET path == Resolve(f, src_path)
    IN IF ~IsUnder(path, BaseDir) THEN FALSE
       ELSE ~\E i \in 1..Len(path) : StartsWithDot(path[i])

\* the path of the WatchEvent a handler builds: dest_path for a move, else src_path
PublishedPath(raw) == IF raw.event_type = "moved" THEN raw.dest_path ELSE raw.src_path

\* the containment and hidden-segment checks of is_path_safe
ContainedAndVisible(f, path) ==
    LET normalized_path == Resolve(f, path)
    IN IF ~IsUnder(normalized_path, BaseDir) THEN FALSE
       ELSE LET relative_path == RelativeTo(normalized_path, BaseDir)
            IN ~\E i \in 1..Len(relative_path) : StartsWithDot(relative_path[i])

\* on_created / on_modified / on_deleted / on_moved: the event is published or not
HandlerPasses(f, raw) ==
    IF raw.event_type = "modified"
    THEN ShouldProcessEvent(f, raw.src_path) /\ ~raw.is_directory
    ELSE ShouldProcessEvent(f, raw.src_path)

-----------------------------------------------------------------------------
(* Layouts *)

\* entries present in every layout
PlainLayout ==
    (<<NData>> :> DirNode) @@
    (<<NData, NA>> :> DirNode) @@
    (<<NData, NTxt>> :> FileNode(<<"x">>)) @@
    (<<NData, NHid>> :> FileNode(<<"x">>)) @@
    (<<NData, NBlk>> :> DirNode) @@
    (<<NOut>> :> DirNode) @@
    (<<NOut, NTxt>> :> FileNode(<<"x">>)) @@
    (<<NOut, NBack>> :> LinkNode(<<NData, NTxt>>)) @@
    (<<NEtc>> :> DirNode)

\* where the symlink d/l of a layout may point
LinkTargets == {<<NOut>>, <<NData, NA>>, <<NData, NHid>>, <<NData, NBlk>>}

\* a layout: the plain entries plus the symlinks d/l, d/.l and d/a/l
LayoutWith(t1, t2, t3) ==
    (<<NData, NLnk>> :> LinkNode(t1)) @@
    (<<NData, NHidLnk>> :> LinkNode(t2)) @@
    (<<NData, NA, NLnk>> :> LinkNode(t3)) @@
    PlainLayout

\* the layout the service calls start from: d/l -> /o, d/.l -> /d/a, d/a/l -> /d/f.t
\* and, outside the root, o/k -> /d/f.t
OpsLayout == LayoutWith(<<NOut>>, <<NData, NA>>, <<NData, NTxt>>)

-----------------------------------------------------------------------------
(* Inputs *)

CandNames == {NA, NTxt, NHid, NLnk, NHidLnk, DotDot, CurDir}

CandLeads == {<<>>, <<Sep>>, <<BackSlash>>, <<Space, Sep>>}

CandSegs == {<<>>} \cup {<<n>> : n \in CandNames} \cup {<<m, n>> : m \in CandNames, n \in CandNames}

\* the candidate strings handed to get_safe_path alone
PathCands ==
    {lead \o Join(segs) : lead \in CandLeads, segs \in CandSegs}
        \cup {Join(<<n>>) \o <<Space>> : n \in CandNames}

\* the candidate strings handed to the service calls
OpCands ==
    {<<>>, NTxt, NA, NExe, NHid,
     Join(<<NA, NNewT>>), Join(<<NMiss, NNewT>>),
     Join(<<NA, DotDot, NTxt>>), <<Sep>> \o NTxt, Join(<<NTxt, NNewT>>),
     Join(<<NLnk, NTxt>>), Join(<<NLnk, NBack>>)}

RECURSIVE XRun(_)
\* the text "x" repeated n times
XRun(n) == IF n = 0 THEN <<>> ELSE <<"x">> \o XRun(n - 1)

\* request payloads: content and encoding
Payloads ==
    {[content |-> <<>>, enc |-> Utf8],
     [content |-> <<ChCR>>, enc |-> Utf8],
     [content |-> <<ChEAcute>>, enc |-> Latin1],
     [content |-> XRun(MaxFileSize + 1), enc |-> Utf8]}

\* the data of a batch operation: path, content, encoding and the request's flag
\* (overwrite, create_if_missing or recursive)
OpData(path, content, flag) ==
    [path |-> path, content |-> content, encoding |-> Utf8, flag |-> flag]

\* the operations a batch is made of
BatchOps ==
    {[type |-> "create_file", path |-> <<>>, data |-> OpData(Join(<<NA, NNewT>>), <<"x">>, FALSE)],
     [type |-> "create_file", path |-> <<>>, data |-> OpData(NExe, <<"x">>, FALSE)],
     [type |-> "create_file", path |-> <<>>, data |-> OpData(<<Sep>> \o NTxt, <<"x">>, TRUE)],
     [type |-> "update_file", path |-> NTxt, data |-> OpData(<<>>, <<>>, FALSE)],
     [type |-> "delete", path |-> NTxt, data |-> OpData(<<>>, <<>>, FALSE)],
     [type |-> "create_directory", path |-> <<>>, data |-> OpData(NMiss, <<>>, TRUE)],
     [type |-> "move", path |-> NTxt, data |-> OpData(<<>>, <<>>, FALSE)]}

\* the operation lists of a batch request
Batches == UNION {[1..n -> BatchOps] : n \in 1..MaxBatchLen}

\* the raw notifications of the watchdog observer
RawEvents ==
    {Raw("created", <<NData, NNewT>>, <<>>, FALSE),
     Raw("modified", <<NData, NTxt>>, <<>>, FALSE),
     Raw("modified", <<NData, NA>>, <<>>, TRUE),
     Raw("deleted", <<NData, NHid>>, <<>>, FALSE),
     Raw("moved", <<NData, NA, NNewT>>, <<NData, NNewT>>, FALSE),
     Raw("moved", <<NData, NTxt>>, <<NData, NHid>>, FALSE),
     Raw("created", <<NOut, NTxt>>, <<>>, FALSE)}

\* the files another process writes under the root: d/f.t, d/g.x and d/X
ExternalFiles == {<<NData, NTxt>>, <<NData, NExe>>, <<NData, NUpper>>}

\* the create_file requests served while the observer watches
ObservedCands == {Join(<<NA, NNewT>>), Join(<<NMiss, NNewT>>), NTxt}

ObservedPayload == [content |-> <<"x">>, enc |-> Utf8]

-----------------------------------------------------------------------------
(* The record of the last call, and the actions *)

Call(op, cand, flag, pl, r, listing, info) ==
    [op |-> op, cand |-> cand, flag |-> flag, content |-> pl.content, enc |-> pl.enc,
     safe |-> r.safe, outcome |-> r.outcome, cause |-> r.cause, rcontent |-> r.content,
     checksum |-> r.checksum, size |-> r.size, listing |-> listing, info |-> info,
     status |-> IF op = "read" THEN ReadStatus(r.outcome) ELSE 0]

NoPayload == [content |-> <<>>, enc |-> Utf8]

NoCall == Call("none", <<>>, FALSE, NoPayload, Fail(<<>>, None, "none", ""), NoListing, NoInfo)

\* no create_file call is between its open and its close
NoWriter == [active |-> FALSE, cand |-> <<>>, content |-> <<>>, enc |-> Utf8, flag |-> FALSE,
             safe |-> None, absent |-> FALSE]

\* the two create_file requests served as concurrent tasks
Creators == {"first", "second"}

\* a create_file request that has not arrived
NoCreator == [stage |-> "idle", cand |-> <<>>, content |-> <<>>, enc |-> Utf8,
              path |-> <<>>, outcome |-> "none"]

NoBatch == [operations |-> <<>>, continue_on_error |-> TRUE,
            response |-> BatchOperationResponse(<<>>, NoResponse)]

\* no batch served, no subscriber, no publish task, no notification handled
InitIdle ==
    /\ batch = NoBatch
    /\ watch_subscribers = <<>>
    /\ queues = <<>>
    /\ tasks = <<>>
    /\ ready = <<>>
    /\ handled = <<>>
    /\ streams = <<>>
    /\ observed = <<>>
    /\ writer = NoWriter
    /\ creators = [i \in Creators |-> NoCreator]

Init ==
    /\ fs = OpsLayout
    /\ pre = fs
    /\ last = NoCall
    /\ nops = 0
    /\ InitIdle

InitPath ==
    /\ \E t1 \in LinkTargets, t2 \in {<<NData, NA>>, <<NOut>>}, t3 \in {<<NData, NTxt>>, <<NOut, NTxt>>} :
           fs = LayoutWith(t1, t2, t3)
    /\ pre = fs
    /\ last = NoCall
    /\ nops = 0
    /\ InitIdle

\* a call of SecurityManager.get_safe_path
QuerySafePath(c) ==
    /\ last' = Call("get_safe_path", c, FALSE, NoPayload, Fail(fs, GetSafePath(fs, c), "none", ""),
                    NoListing, NoInfo)
    /\ pre' = fs
    /\ UNCHANGED <<fs, nops>>
    /\ UNCHANGED <<bvars, wvars, xvars>>

\* a service call that returns r
Step(op, c, flag, pl, r, listing, info) ==
    /\ fs' = r.fs
    /\ pre' = fs
    /\ last' = Call(op, c, flag, pl, r, listing, info)
    /\ nops' = nops + 1
    /\ UNCHANGED <<bvars, wvars, xvars>>

DoCreate(c, pl, overwrite) ==
    /\ nops < MaxOps
    /\ \E r \in {CreateFile(fs, c, pl.content, overwrite, pl.enc)} :
        Step("create", c, overwrite, pl, r, NoListing, NoInfo)

DoRead(c) ==
    /\ nops < MaxOps
    /\ \E r \in {ReadFile(fs, c)} : Step("read", c, FALSE, NoPayload, r, NoListing, NoInfo)

DoUpdate(c, pl, create_if_missing) ==
    /\ nops < MaxOps
    /\ \E r \in {UpdateFile(fs, c, pl.content, pl.enc, create_if_missing)} :
        Step("update", c, create_if_missing, pl, r, NoListing, NoInfo)

DoDelete(c) ==
    /\ nops < MaxOps
    /\ \E r \in {DeleteFile(fs, c)} : Step("delete", c, FALSE, NoPayload, r, NoListing, NoInfo)

DoList(c) ==
    /\ nops < MaxOps
    /\ \E l \in {ListDirectory(fs, c)} : Step("list", c, FALSE, NoPayload, l.r, l.listing, NoInfo)

DoGetInfo(c) ==
    /\ nops < MaxOps
    /\ \E g \in {GetFileInfo(fs, c)} : Step("get_info", c, FALSE, NoPayload, g.r, NoListing, g.info)

DoCreateDirectory(c, recursive) ==
    /\ nops < MaxOps
    /\ \E r \in {CreateDirectory(fs, c, recursive)} :
        Step("create_directory", c, recursive, NoPayload, r, NoListing, NoInfo)

Next ==
    \/ \E c \in OpCands, pl \in Payloads, b \in BOOLEAN : DoCreate(c, pl, b)
    \/ \E c \in OpCands : DoRead(c)
    \/ \E c \in OpCands, pl \in Payloads, b \in BOOLEAN : DoUpdate(c, pl, b)
    \/ \E c \in OpCands : DoDelete(c)
    \/ \E c \in OpCands : DoList(c)
    \/ \E c \in OpCands : DoGetInfo(c)
    \/ \E c \in OpCands, b \in BOOLEAN : DoCreateDirectory(c, b)

Spec == Init /\ [][Next]_vars

\* POST /batch, served on the initial layout
DoBatch(operations, continue_on_error) ==
    /\ batch = NoBatch
    /\ \E b \in {BatchOperations(fs, operations, continue_on_error)} :
        /\ fs' = b.fs
        /\ pre' = fs
        /\ batch' = [operations |-> operations, continue_on_error |-> continue_on_error,
                     response |-> b]
    /\ UNCHANGED <<last, nops, wvars, xvars>>

NextBatch == \E operations \in Batches, continue_on_error \in BOOLEAN :
                 DoBatch(operations, continue_on_error)

SpecBatch == Init /\ [][NextBatch]_vars

\* FileSystemService.subscribe_to_watch_events
SubscribeToWatchEvents ==
    /\ Len(queues) < MaxQueues
    /\ queues' = Append(queues, NewQueue)
    /\ watch_subscribers' = Append(watch_subscribers, Len(queues) + 1)
    /\ UNCHANGED <<fs, pre, last, nops, bvars, xvars, tasks, ready, handled>>

\* unsubscribe_from_watch_events leaving the list as it is
UnsubscribeKeepsQueue(q) ==
    /\ q \in 1..Len(queues)
    /\ queues[q].unsubscribed # "again"
    /\ watch_subscribers' = watch_subscribers
    /\ queues' = [queues EXCEPT ![q].unsubscribed = IF @ = "never" THEN "once" ELSE "again"]
    /\ UNCHANGED <<fs, pre, last, nops, bvars, xvars, tasks, ready, handled>>

\* FileSystemService.unsubscribe_from_watch_events
UnsubscribeFromWatchEvents(q) ==
    /\ q \in 1..Len(queues)
    /\ queues[q].unsubscribed # "again"
    /\ watch_subscribers' = IF q \in Range(watch_subscribers)
                            THEN ListRemove(watch_subscribers, q)
                            ELSE watch_subscribers
    /\ queues' = [queues EXCEPT ![q].unsubscribed = IF @ = "never" THEN "once" ELSE "again"]
    /\ UNCHANGED <<fs, pre, last, nops, bvars, xvars, tasks, ready, handled>>

\* asyncio.create_task(self.server._notify_watch_event(watch_event)) on the loop: the
\* events are numbered in the order they are published
StartNotify ==
    /\ Len(tasks) < MaxEvents
    /\ CanCreateTask("loop")
    /\ tasks' = Append(tasks, [NewTask EXCEPT !.born = Len(queues)])
    /\ ready' = Append(ready, Len(tasks) + 1)
    /\ UNCHANGED <<fs, pre, last, nops, bvars, xvars, watch_subscribers, queues, handled>>

\* the loop runs the task at the head of its ready queue until the task suspends
RunTask ==
    /\ ready # <<>>
    /\ LET t == Head(ready)
           run == NotifyWatchEvent(watch_subscribers, queues, t, tasks[t])
       IN /\ queues' = run.queues
          /\ tasks' = [tasks EXCEPT ![t] = run.task]
    /\ ready' = Tail(ready)
    /\ UNCHANGED <<fs, pre, last, nops, bvars, xvars, watch_subscribers, handled>>

\* event_stream of a connection that is still open: queue.get() takes the oldest item
\* and wakes the first task suspended in put()
Get(q) ==
    /\ q \in 1..Len(queues)
    /\ queues[q].unsubscribed = "never"
    /\ queues[q].items # <<>>
    /\ LET woken == queues[q].putters
       IN /\ queues' = [queues EXCEPT ![q].items = Tail(@),
                                      ![q].taken = Head(queues[q].items),
                                      ![q].putters = IF woken = <<>> THEN <<>> ELSE Tail(@)]
          /\ tasks' = IF woken = <<>> THEN tasks
                      ELSE [tasks EXCEPT ![Head(woken)].state = "ready"]
          /\ ready' = IF woken = <<>> THEN ready ELSE Append(ready, Head(woken))
    /\ UNCHANGED <<fs, pre, last, nops, bvars, xvars, watch_subscribers, handled>>

NextWatch ==
    \/ SubscribeToWatchEvents
    \/ \E q \in 1..MaxQueues : UnsubscribeFromWatchEvents(q)
    \/ StartNotify
    \/ RunTask
    \/ \E q \in 1..MaxQueues : Get(q)

SpecWatch == Init /\ [][NextWatch]_vars

\* one subscriber is connected when the observer starts to report
InitHandler ==
    /\ fs = OpsLayout
    /\ pre = fs
    /\ last = NoCall
    /\ nops = 0
    /\ batch = NoBatch
    /\ watch_subscribers = <<1>>
    /\ queues = <<NewQueue>>
    /\ tasks = <<>>
    /\ ready = <<>>
    /\ handled = <<>>
    /\ streams = <<>>
    /\ observed = <<>>
    /\ writer = NoWriter
    /\ creators = [i \in Creators |-> NoCreator]

\* FileSystemEventHandler.on_created / on_modified / on_deleted / on_moved, called on
\* the observer's thread: an event that passes is handed to asyncio.create_task
OnEvent(raw) ==
    /\ Len(handled) < MaxRaw
    /\ LET passed == HandlerPasses(fs, raw)
           created == passed /\ CanCreateTask(HandlerThread)
       IN /\ handled' = Append(handled, [raw |-> raw, passed |-> passed,
                                         raised |-> passed /\ ~created,
                                         task |-> IF created THEN Len(tasks) + 1 ELSE 0])
          /\ tasks' = IF created THEN Append(tasks, NewTask) ELSE tasks
          /\ ready' = IF created THEN Append(ready, Len(tasks) + 1) ELSE ready
    /\ observed' = IF observed # <<>> /\ raw = Head(observed) THEN Tail(observed) ELSE observed
    /\ UNCHANGED <<fs, pre, last, nops, bvars, streams, writer, creators, watch_subscribers,
                   queues>>

\* create_file served while the observer watches base_dir: the observer thread is
\* left with the notifications of what the call did
CreateObserved(c, pl) ==
    /\ nops < MaxOps
    /\ observed = <<>>
    /\ \E r \in {CreateFile(fs, c, pl.content, FALSE, pl.enc)} :
        /\ Len(handled) + Len(Notifications(fs, r.fs)) <= MaxRaw
        /\ fs' = r.fs
        /\ pre' = fs
        /\ last' = Call("create", c, FALSE, pl, r, NoListing, NoInfo)
        /\ nops' = nops + 1
        /\ observed' = Notifications(fs, r.fs)
    /\ UNCHANGED <<bvars, wvars, streams, writer, creators>>

\* the notifications the observer may dispatch next
NextRaw == RawEvents \cup (IF observed = <<>> THEN {} ELSE {Head(observed)})

NextHandler ==
    \/ \E raw \in NextRaw : OnEvent(raw)
    \/ \E c \in ObservedCands : CreateObserved(c, ObservedPayload)

SpecHandler == InitHandler /\ [][NextHandler]_vars

\* a process other than the server appends a byte to a file under the root, making the
\* file if it is absent: files the service itself would refuse to write come to exist
ExternalWrite(loc) ==
    /\ nops < MaxOps
    /\ Parent(loc) \in DOMAIN fs
    /\ fs[Parent(loc)].kind = "dir"
    /\ IF loc \in DOMAIN fs
       THEN /\ fs[loc].kind = "file"
            /\ Len(fs[loc].data) <= MaxFileSize
            /\ fs' = With(fs, loc, FileNode(Append(fs[loc].data, "x")))
       ELSE fs' = With(fs, loc, FileNode(<<"x">>))
    /\ pre' = fs'
    /\ last' = NoCall
    /\ UNCHANGED <<nops, bvars, wvars, xvars>>

NextExternal ==
    \/ \E loc \in ExternalFiles : ExternalWrite(loc)
    \/ \E c \in OpCands : DoRead(c)
    \/ \E c \in OpCands : DoDelete(c)
    \/ \E c \in OpCands : DoList(c)
    \/ \E c \in OpCands : DoGetInfo(c)

SpecExternal == Init /\ [][NextExternal]_vars

\* the read-only calls, served on every layout of the symlinks d/l, d/.l and d/a/l
NextLinked ==
    \/ \E c \in OpCands : DoList(c)
    \/ \E c \in OpCands : DoGetInfo(c)
    \/ \E c \in OpCands : DoRead(c)

SpecLinked == InitPath /\ [][NextLinked]_vars

\* the contents create_file is asked to write while other requests are served
RacePayloads == {ObservedPayload, [content |-> XRun(MaxFileSize), enc |-> Utf8]}

\* create_file up to its first suspension inside 'async with aiofiles.open(file_path, 'w')':
\* the checks, the mkdir of the parents and the open have run, so the file exists and
\* is empty; a call that fails one of the checks returns at once
BeginCreate(c, pl, overwrite) ==
    /\ nops < MaxOps
    /\ ~writer.active
    /\ \E r \in {CreateFile(fs, c, pl.content, overwrite, pl.enc)} :
        IF r.outcome = "ok"
        THEN /\ fs' = WriteFile(r.fs, r.safe.path, <<>>).fs
             /\ pre' = fs
             /\ last' = NoCall
             /\ nops' = nops
             /\ writer' = [active |-> TRUE, cand |-> c, content |-> pl.content, enc |-> pl.enc,
                           flag |-> overwrite, safe |-> r.safe,
                           absent |-> ~Exists(fs, r.safe.path)]
        ELSE /\ fs' = r.fs
             /\ pre' = fs
             /\ last' = Call("create", c, overwrite, pl, r, NoListing, NoInfo)
             /\ nops' = nops + 1
             /\ writer' = writer
    /\ UNCHANGED <<bvars, wvars, streams, observed, creators>>

\* create_file from f.write(request.content) to the end of the 'async with': the bytes
\* reach the file when it is closed, and the result is returned
FinishCreate ==
    /\ writer.active
    /\ \E w \in {WriteFile(fs, writer.safe.path, Encode(writer.content, writer.enc))} :
        /\ fs' = w.fs
        /\ pre' = fs
        /\ last' = Call("create", writer.cand, writer.flag,
                        [content |-> writer.content, enc |-> writer.enc],
                        Result(w.fs, writer.safe, "ok", "", <<>>,
                               CalculateChecksum(writer.content),
                               Len(Encode(writer.content, writer.enc))),
                        NoListing, NoInfo)
    /\ nops' = nops + 1
    /\ writer' = NoWriter
    /\ UNCHANGED <<bvars, wvars, streams, observed, creators>>

NextRace ==
    \/ \E c \in ObservedCands, pl \in RacePayloads, b \in BOOLEAN : BeginCreate(c, pl, b)
    \/ FinishCreate
    \/ \E c \in OpCands : DoRead(c)

SpecRace == Init /\ [][NextRace]_vars

\* the name a validate_path_operation call is recorded under
ProbeName(operation) ==
    CASE operation = "read" -> "validate_read"
      [] operation = "write" -> "validate_write"
      [] OTHER -> "validate_delete"

\* validate_path_operation(operation, base_dir / c): the verdict is recorded, nothing
\* on disk is touched
DoValidate(operation, c) ==
    /\ nops < MaxOps
    /\ \E v \in {ValidatePathOperation(fs, operation, JoinBase(c))} :
        Step(ProbeName(operation), c, FALSE, NoPayload,
             Fail(fs, [ok |-> v.reason # "unsafe", path |-> JoinBase(c)], v.reason, ""),
             NoListing, NoInfo)

NextProbe ==
    \/ \E operation \in PathOperations, c \in OpCands : DoValidate(operation, c)
    \/ \E c \in OpCands : DoDelete(c)

SpecProbe == Init /\ [][NextProbe]_vars

\* two contents that differ in length and in every byte
PairPayloads == {[content |-> <<ChCR>>, enc |-> Utf8], [content |-> XRun(MaxFileSize), enc |-> Utf8]}

\* write(bytes) at offset 0 of a file that holds old, then close
WriteAtStart(old, bytes) == bytes \o SubSeq(old, Len(bytes) + 1, Len(old))

\* create_file(overwrite=false) up to 'async with aiofiles.open(...)', where the task
\* hands open() to the executor and is suspended: the checks have run, the parent
\* directories are made; a call that fails a check returns at once
CreateCheck(i, c, pl) ==
    /\ creators[i].stage = "idle"
    /\ \E r \in {CreateFile(fs, c, pl.content, FALSE, pl.enc)} :
        IF r.outcome = "ok"
        THEN /\ fs' = Mkdir(fs, Parent(r.safe.path), TRUE, TRUE).fs
             /\ creators' = [creators EXCEPT ![i] =
                                [stage |-> "checked", cand |-> c, content |-> pl.content,
                                 enc |-> pl.enc, path |-> r.safe.path, outcome |-> "none"]]
        ELSE /\ fs' = r.fs
             /\ creators' = [creators EXCEPT ![i] =
                                [stage |-> "done", cand |-> c, content |-> pl.content,
                                 enc |-> pl.enc, path |-> r.safe.path, outcome |-> r.outcome]]
    /\ UNCHANGED <<pre, last, nops, bvars, wvars, streams, observed, writer>>

\* open(file_path, 'w') runs in the executor: the file is made, or truncated if
\* another task made it meanwhile
CreateOpen(i) ==
    /\ creators[i].stage = "checked"
    /\ fs' = WriteFile(fs, creators[i].path, <<>>).fs
    /\ creators' = [creators EXCEPT ![i].stage = "opened"]
    /\ UNCHANGED <<pre, last, nops, bvars, wvars, streams, observed, writer>>

\* f.write(request.content) and the close of the file: the bytes land at offset 0 of
\* what the file holds by then, and the call returns success
CreateWrite(i) ==
    /\ creators[i].stage = "opened"
    /\ fs' = WriteFile(fs, creators[i].path,
                       WriteAtStart(fs[Resolve(fs, creators[i].path)].data,
                                    Encode(creators[i].content, creators[i].enc))).fs
    /\ creators' = [creators EXCEPT ![i].stage = "done", ![i].outcome = "ok"]
    /\ UNCHANGED <<pre, last, nops, bvars, wvars, streams, observed, writer>>

NextPair ==
    \/ \E i \in Creators, c \in ObservedCands, pl \in PairPayloads : CreateCheck(i, c, pl)
    \/ \E i \in Creators : CreateOpen(i)
    \/ \E i \in Creators : CreateWrite(i)

SpecPair == Init /\ [][NextPair]_vars

\* byte counts around both ends of the accepted range
SizeInputs == (0 - 1)..(MaxFileSize + 2)

\* contents of every length up to one byte over the limit, and a character that takes
\* two bytes in utf-8
SizePayloads ==
    {[content |-> XRun(n), enc |-> Utf8] : n \in 0..(MaxFileSize + 1)}
        \cup {[content |-> <<ChEAcute>>, enc |-> Utf8]}

\* validate_file_size(n): the verdict is recorded
DoValidateSize(n) ==
    /\ nops < MaxOps
    /\ Step("validate_size", <<>>, FALSE, NoPayload,
            Result(fs, None, IF ValidateFileSize(n) THEN "ok" ELSE "size", "", <<>>, NoHash, n),
            NoListing, NoInfo)

NextSize ==
    \/ \E n \in SizeInputs : DoValidateSize(n)
    \/ \E c \in ObservedCands, pl \in SizePayloads, b \in BOOLEAN : DoCreate(c, pl, b)
    \/ \E c \in ObservedCands, pl \in SizePayloads, b \in BOOLEAN : DoUpdate(c, pl, b)

SpecSize == Init /\ [][NextSize]_vars

\* the allowed sets a SecurityManager is built with: none, and the configured one
ExtensionSets == {{}, AllowedExtensions}

\* final path segments: plain, upper-case, forbidden, without a dot, with a leading
\* dot only, with a trailing dot, with two dots
ExtensionNames ==
    {NTxt, <<"f", ".", "T">>, NExe, NA, <<".", "t">>, <<"f", ".">>,
     <<"f", ".", "t", ".", "x">>, <<"f", ".", "x", ".", "t">>, <<".", ".", "t">>}

\* validate_file_extension(base_dir / name): the verdict is recorded; flag tells that
\* the allowed set is empty
DoValidateExtension(allowed, name) ==
    /\ nops < MaxOps
    /\ Step("validate_extension", name, allowed = {}, NoPayload,
            Fail(fs, Some(Append(BaseDir, name)),
                 IF ValidateFileExtensionIn(allowed, Append(BaseDir, name)) THEN "ok"
                                                                           ELSE "extension",
                 ""),
            NoListing, NoInfo)

NextExtension ==
    \/ \E allowed \in ExtensionSets, name \in ExtensionNames : DoValidateExtension(allowed, name)
    \/ \E c \in OpCands, pl \in Payloads, b \in BOOLEAN : DoCreate(c, pl, b)

SpecExtension == Init /\ [][NextExtension]_vars

\* GET /watch/events: the endpoint subscribes and returns the StreamingResponse over
\* event_stream(), a generator that has not run yet
WatchEvents ==
    /\ Len(streams) < MaxQueues
    /\ queues' = Append(queues, NewQueue)
    /\ watch_subscribers' = Append(watch_subscribers, Len(queues) + 1)
    /\ streams' = Append(streams, [queue |-> Len(queues) + 1, state |-> "created"])
    /\ UNCHANGED <<fs, pre, last, nops, bvars, tasks, ready, handled, observed, writer, creators>>

\* the response asks the generator for its next chunk: event_stream runs, from its
\* start or from its yield, to await queue.get()
StreamNext(c) ==
    /\ c \in 1..Len(streams)
    /\ streams[c].state \in {"created", "yielded"}
    /\ streams' = [streams EXCEPT ![c].state = "waiting"]
    /\ UNCHANGED <<fs, pre, last, nops, bvars, wvars, observed, writer, creators>>

\* queue.get() returns an event to event_stream, which yields its SSE frame
StreamGet(c) ==
    /\ c \in 1..Len(streams)
    /\ streams[c].state = "waiting"
    /\ LET q == streams[c].queue
           woken == queues[q].putters
       IN /\ queues[q].items # <<>>
          /\ queues' = [queues EXCEPT ![q].items = Tail(@),
                                      ![q].taken = Head(queues[q].items),
                                      ![q].putters = IF woken = <<>> THEN <<>> ELSE Tail(@)]
          /\ tasks' = IF woken = <<>> THEN tasks
                      ELSE [tasks EXCEPT ![Head(woken)].state = "ready"]
          /\ ready' = IF woken = <<>> THEN ready ELSE Append(ready, Head(woken))
    /\ streams' = [streams EXCEPT ![c].state = "yielded"]
    /\ UNCHANGED <<fs, pre, last, nops, bvars, watch_subscribers, handled, observed, writer, creators>>

\* the generator's finally clause runs only if the generator has started
FinallyRuns(state) == state \in {"waiting", "yielded"}

\* the connection ends: the generator is closed where it stands; inside the try block
\* the finally clause calls unsubscribe_from_watch_events(queue)
Disconnect(c) ==
    /\ c \in 1..Len(streams)
    /\ streams[c].state # "closed"
    /\ LET q == streams[c].queue
       IN IF FinallyRuns(streams[c].state)
          THEN /\ watch_subscribers' = IF q \in Range(watch_subscribers)
                                       THEN ListRemove(watch_subscribers, q)
                                       ELSE watch_subscribers
               /\ queues' = [queues EXCEPT ![q].unsubscribed =
                                               IF @ = "never" THEN "once" ELSE "again"]
          ELSE UNCHANGED <<watch_subscribers, queues>>
    /\ streams' = [streams EXCEPT ![c].state = "closed"]
    /\ UNCHANGED <<fs, pre, last, nops, bvars, tasks, ready, handled, observed, writer, creators>>

NextStream ==
    \/ WatchEvents
    \/ \E c \in 1..MaxQueues : StreamNext(c)
    \/ StartNotify
    \/ RunTask
    \/ \E c \in 1..MaxQueues : StreamGet(c)
    \/ \E c \in 1..MaxQueues : Disconnect(c)

SpecStream == Init /\ [][NextStream]_vars

NextPath == \E c \in PathCands : QuerySafePath(c)

SpecPath == InitPath /\ [][NextPath]_vars

-----------------------------------------------------------------------------
(* Claims *)

\* the candidate string has a '..' segment
HasDotDotSegment(c) == DotDot \in Range(SplitAcc(c, <<>>, <<>>))

\* the candidate string starts with '/' or '\'
HasAbsolutePrefix(c) == Len(c) > 0 /\ Head(c) \in {Sep, BackSlash}

\* the lower-cased extension of the final name, without the dot
ExtensionOf(p) == StripLeft(Lower(Suffix(p)), {DotCh})

\* C1: get_safe_path returns a path (the joined path) exactly when the canonical form
\* of root/candidate is the root or below it, the joined path has no '..' component,
\* the canonical path is under no blocked path, and no segment of the canonical path
\* relative to the root starts with a dot.
C1_SafeIffInvariant ==
    last.op = "get_safe_path" =>
        LET joined == JoinBase(last.cand)
            canonical == Resolve(fs, joined)
            verdict == /\ IsUnder(canonical, BaseDir)
                       /\ DotDot \notin Range(joined)
                       /\ \A b \in BlockedPaths : ~IsUnder(canonical, b)
                       /\ \A seg \in Range(RelativeTo(canonical, BaseDir)) : ~StartsWithDot(seg)
        IN /\ last.safe.ok <=> verdict
           /\ last.safe.ok => last.safe.path = joined

\* C1 witness: a path was returned whose canonical form differs from the joined path
C1_Witness ==
    /\ last.op = "get_safe_path"
    /\ last.safe.ok
    /\ Resolve(fs, last.safe.path) # last.safe.path

\* C2 as stated: a candidate with a '..' segment or a leading '/' or '\' makes the gate
\* return none, and read, update, delete, list and get_info reject it as unsafe.
C2_Original ==
    (last.op \in {"read", "update", "delete", "list", "get_info"}
        /\ (HasDotDotSegment(last.cand) \/ HasAbsolutePrefix(last.cand)))
    => /\ ~last.safe.ok
       /\ last.outcome \in {"unsafe", "none"}

\* C2 amended: a candidate with a '..' segment makes the gate return none for every
\* call; read, update, delete and list then reject it as unsafe, get_info returns none,
\* and nothing changes.  A leading '/' or '\' is not rejected: the separators are
\* stripped and the call is served at root/rest whenever that path is safe.
C2_Amended ==
    /\ (last.op # "none" /\ HasDotDotSegment(last.cand))
       => /\ ~last.safe.ok
          /\ last.op \in {"create", "read", "update", "delete", "list", "create_directory"}
                => last.outcome = "unsafe"
          /\ last.op = "get_info" => ~last.info.present
          /\ fs = pre
    /\ (last.op # "none" /\ HasAbsolutePrefix(last.cand))
       => LET rest == StripLeft(Strip(last.cand), {Sep, BackSlash})
              joined == BaseDir \o PathParts(rest)
          IN last.safe = IF IsPathSafe(pre, joined) THEN Some(joined) ELSE None

\* C2 witness: a read of a candidate with a '..' segment that stays inside the root
C2_Witness ==
    /\ last.op = "read"
    /\ HasDotDotSegment(last.cand)
    /\ IsUnder(Resolve(pre, JoinBase(last.cand)), BaseDir)
    /\ last.outcome = "unsafe"

\* C3: a candidate whose literal path stays inside the root (no '..' component) but
\* whose canonical form, after following symlinks, lies outside the root gets none.
C3_SymlinkEscapeRejected ==
    (last.op = "get_safe_path"
        /\ DotDot \notin Range(JoinBase(last.cand))
        /\ ~IsUnder(Resolve(fs, JoinBase(last.cand)), BaseDir))
    => ~last.safe.ok

\* C3 witness: such a candidate, with no hidden segment either, was given to the gate
C3_Witness ==
    /\ last.op = "get_safe_path"
    /\ DotDot \notin Range(JoinBase(last.cand))
    /\ \A seg \in Range(JoinBase(last.cand)) : ~StartsWithDot(seg)
    /\ ~IsUnder(Resolve(fs, JoinBase(last.cand)), BaseDir)
    /\ ~last.safe.ok

\* C4: a candidate any segment of which starts with a dot gets none from the gate,
\* also when that segment is a symlink whose target has no dot-prefixed segment.
C4_HiddenSegmentRejected ==
    (last.op = "get_safe_path"
        /\ \E seg \in Range(PathParts(CleanPath(last.cand))) : StartsWithDot(seg))
    => ~last.safe.ok

\* C5: every call takes its path from the gate; when the gate returns none the call
\* leaves the filesystem alone, and every location a call creates, writes or removes
\* is the sandbox root or below it.
C5_EffectsConfined ==
    last.op \in {"create", "read", "update", "delete", "list", "get_info", "create_directory"}
    => /\ ~last.safe.ok => fs = pre
       /\ \A loc \in Changed(pre, fs) : IsUnder(loc, BaseDir)

C8_RoundTrip ==
    [][(last.op = "create" /\ last.outcome = "ok"
            /\ last'.op = "read" /\ last'.cand = last.cand)
       => /\ last'.outcome = "ok"
          /\ last'.rcontent = last.content
          /\ last'.checksum = last.checksum
          /\ last'.checksum = CalculateChecksum(last.content)]_vars

\* C9: delete of a safe path where nothing exists fails as 'not found' and changes
\* nothing.
C9_DeleteAbsentNotFound ==
    (last.op = "delete" /\ last.safe.ok /\ ~Exists(pre, last.safe.path))
    => /\ last.outcome = "notfound"
       /\ fs = pre

\* C10: read of a safe path where nothing exists fails with the not-found error,
\* rendered as status 404.
C10_ReadAbsentNotFound ==
    (last.op = "read" /\ last.safe.ok /\ ~Exists(pre, last.safe.path))
    => /\ last.outcome = "notfound"
       /\ last.status = 404

\* some proper ancestor of the path exists and is not a directory
AncestorNotDir(f, p) ==
    \E i \in 1..(Len(p) - 1) : Exists(f, SubSeq(p, 1, i)) /\ ~IsDir(f, SubSeq(p, 1, i))

\* every proper ancestor of the path is a directory
AncestorsAreDirs(f, p) == \A i \in 1..(Len(p) - 1) : IsDir(f, SubSeq(p, 1, i))

\* the path names a regular file that holds exactly the bytes
HoldsBytes(f, p, bytes) == IsFile(f, p) /\ f[Resolve(f, p)].data = bytes

C12_ListingHidesDotNames ==
    (last.op = "list" /\ last.outcome = "ok")
    => /\ \A i \in 1..Len(last.listing.files) : ~StartsWithDot(last.listing.files[i].name)
       /\ \A i \in 1..Len(last.listing.directories) :
              ~StartsWithDot(last.listing.directories[i].name)
       /\ last.listing.total_count = Len(last.listing.files) + Len(last.listing.directories)

\* C12 witness: a directory holding dot-prefixed entries was listed, with both a file
\* and a directory in the result
C12_Witness ==
    /\ last.op = "list"
    /\ last.outcome = "ok"
    /\ \E q \in DOMAIN pre : Len(q) > 0 /\ Parent(q) = Resolve(pre, last.safe.path)
                                /\ StartsWithDot(Name(q))
    /\ Len(last.listing.files) > 0
    /\ Len(last.listing.directories) > 0

\* the result of serving operation i of the last batch after all the operations before it
RECURSIVE RunAll(_, _, _)
RunAll(f, operations, k) ==
    IF k = 0 THEN [fs |-> f, raised |-> FALSE, error |-> "", r |-> Fail(f, None, "none", "")]
    ELSE ServeOperation(RunAll(f, operations, k - 1).fs, operations[k])

\* serving operation k after all the operations before it succeeds
Succeeds(f, operations, k) ==
    LET s == RunAll(f, operations, k) IN ~s.raised /\ s.r.outcome = "ok"

\* the index of the first operation that fails when all are served in order, or the
\* length of the list when none fails
FirstFailure(f, operations) ==
    IF \E k \in 1..Len(operations) : ~Succeeds(f, operations, k)
    THEN CHOOSE k \in 1..Len(operations) :
             ~Succeeds(f, operations, k) /\ \A j \in 1..(k - 1) : Succeeds(f, operations, j)
    ELSE Len(operations)

\* C13: with continue_on_error=true every operation of the batch is served, in input
\* order and whatever failed before it, and results has one entry per operation at the
\* operation's index.
C13_BatchContinues ==
    (batch.operations # <<>> /\ batch.continue_on_error)
    => LET ops == batch.operations
           results == batch.response.results
       IN /\ Len(results) = Len(ops)
          /\ \A i \in 1..Len(ops) :
                 /\ results[i].path = ops[i].path
                 /\ results[i].type = ops[i].type
                 /\ results[i].success = Succeeds(pre, ops, i)
          /\ fs = RunAll(pre, ops, Len(ops)).fs

\* C13 witness: a batch of three whose second operation failed and whose third was
\* still served and changed the filesystem
C13_Witness ==
    /\ batch.continue_on_error
    /\ Len(batch.operations) = 3
    /\ Len(batch.response.results) = 3
    /\ ~batch.response.results[2].success
    /\ batch.response.results[3].success
    /\ fs # RunAll(pre, batch.operations, 2).fs

\* C14: with continue_on_error=false the batch stops at the first failing operation:
\* nothing after it is served and the filesystem is the one left by the operations up
\* to it, the effects of those that succeeded before it included.
C14_BatchStops ==
    (batch.operations # <<>> /\ ~batch.continue_on_error)
    => LET ops == batch.operations
           results == batch.response.results
           k == FirstFailure(pre, ops)
       IN /\ Len(results) = k
          /\ \A i \in 1..(k - 1) : results[i].success
          /\ fs = RunAll(pre, ops, k).fs

\* C14 witness: the first operation succeeded and changed the filesystem, the second
\* failed, and the third, never served, would have succeeded and changed it again
C14_Witness ==
    /\ ~batch.continue_on_error
    /\ Len(batch.operations) = 3
    /\ Len(batch.response.results) = 2
    /\ batch.response.results[1].success
    /\ ~batch.response.results[2].success
    /\ RunAll(pre, batch.operations, 1).fs # pre
    /\ Succeeds(pre, batch.operations, 3)
    /\ RunAll(pre, batch.operations, 3).fs # fs

\* C15: in every batch response total_operations = successful_operations +
\* failed_operations, failed_operations is the number of entries of errors, and errors
\* holds exactly the operations whose results entry has success=false.
C15_BatchCounts ==
    batch.operations # <<>>
    => LET resp == batch.response
           failing == SelectSeq(resp.results, LAMBDA e : ~e.success)
       IN /\ resp.total_operations = resp.successful_operations + resp.failed_operations
          /\ resp.failed_operations = Len(resp.errors)
          /\ Len(resp.errors) = Len(failing)
          /\ \A i \in 1..Len(failing) :
                 resp.errors[i].path = failing[i].path /\ resp.errors[i].type = failing[i].type

\* C16: every failure of create, update, delete and create_directory carries a
\* non-empty message naming its cause, and the batch's results and errors entries for
\* the operation hold that message.
C16_FailureCarriesMessage ==
    LET resp == batch.response
    IN \A i \in 1..Len(resp.results) :
           (~resp.results[i].success /\ resp.causes[i] \notin {"validation", "unknown type"})
           => /\ resp.results[i].message # ""
              /\ resp.results[i].message = resp.causes[i]
              /\ \E j \in 1..Len(resp.errors) : resp.errors[j].error = resp.causes[i]

\* the events of a queue come in the order they were published
Increasing(items) == \A i \in 1..(Len(items) - 1) : items[i] < items[i + 1]

\* C17: each subscriber queue hands out its events in the order in which they were
\* published, whatever the interleaving of publish tasks and consumers, a queue that
\* was full at the time of publishing included.
C17_QueueKeepsOrder ==
    \A q \in 1..Len(queues) :
        /\ Increasing(queues[q].items)
        /\ \A i \in 1..Len(queues[q].items) : queues[q].items[i] > queues[q].taken

\* C18: a publish that meets a full queue completes without waiting for that
\* subscriber to consume, so that the subscribers after it in the list get the event
\* whether or not the slow one ever consumes again: no publish task is ever suspended
\* inside put().
C18_PublishNeverWaits == \A t \in 1..Len(tasks) : tasks[t].state # "waiting"

\* C19: every raw notification that passes the handler's filter becomes one WatchEvent
\* that a publish task enqueues in every registered subscriber queue.
C19_PassedEventPublished ==
    \A i \in 1..Len(handled) :
        handled[i].passed => /\ ~handled[i].raised
                             /\ handled[i].task \in 1..Len(tasks)

\* C20: unsubscribe takes the queue out of the subscriber list and leaves every other
\* registration as it was; a second call with the same queue changes nothing; the
\* queue is never registered again, and the only events that still reach it are those
\* whose put() into it had begun before.
C20_UnsubscribeRemovesOnce ==
    [][\A q \in 1..Len(queues) :
          /\ queues'[q].unsubscribed # queues[q].unsubscribed
                => /\ watch_subscribers' = SelectSeq(watch_subscribers, LAMBDA x : x # q)
                   /\ queues[q].unsubscribed = "once" => watch_subscribers' = watch_subscribers
          /\ queues'[q].unsubscribed # "never" => q \notin Range(watch_subscribers')
          /\ (queues[q].unsubscribed # "never" /\ Len(queues'[q].items) > Len(queues[q].items))
                => /\ ready # <<>>
                   /\ tasks[Head(ready)].at = q
                   /\ queues'[q].items = Append(queues[q].items, Head(ready))]_vars

\* C20 witness: unsubscribe was called twice with a queue that never got an event,
\* while the other subscriber is still registered and holds a published event
C20_Witness ==
    \E q \in 1..Len(queues), o \in 1..Len(queues) :
        /\ queues[q].unsubscribed = "again"
        /\ queues[q].items = <<>>
        /\ queues[q].taken = 0
        /\ o \in Range(watch_subscribers)
        /\ queues[o].items # <<>>

\* the queues of the connections that are still open
OpenQueues == {streams[c].queue : c \in {c \in 1..Len(streams) : streams[c].state # "closed"}}

\* C21: whenever a streaming connection ends its queue is removed from the subscriber
\* list exactly once, so that the registered queues are exactly the queues of the
\* connections still open.
C21_RegisteredAreOpen ==
    /\ Range(watch_subscribers) = OpenQueues
    /\ \A c \in 1..Len(streams) :
           streams[c].state = "closed" => queues[streams[c].queue].unsubscribed = "once"

\* the notifications of the given type for the location that were published
PublishedFor(event_type, loc) ==
    {i \in 1..Len(handled) : /\ handled[i].raw.event_type = event_type
                             /\ handled[i].raw.src_path = loc
                             /\ handled[i].task # 0}

\* C22: with one subscriber registered before a create of a previously absent file,
\* once the observer's notifications of the create are dispatched exactly one 'created'
\* event for the path has been published to the subscriber, ahead of every 'modified'
\* event for the same path.
C22_CreatedPublishedOnce ==
    (last.op = "create" /\ last.outcome = "ok" /\ ~Exists(pre, last.safe.path) /\ observed = <<>>)
        => LET loc == Resolve(fs, last.safe.path)
           IN /\ Cardinality(PublishedFor("created", loc)) = 1
              /\ \A i \in PublishedFor("created", loc), j \in PublishedFor("modified", loc) :
                     handled[i].task < handled[j].task

\* C23: read of an existing readable file whose content is larger than max_file_size
\* returns no content and fails with the size-exceeded error, an outcome other than
\* the generic I/O failure.
C23_OversizedReadIsSizeError ==
    (/\ last.op = "read"
     /\ last.safe.ok
     /\ CanReadFile(pre, last.safe.path)
     /\ Len(pre[Resolve(pre, last.safe.path)].data) > MaxFileSize)
        => /\ last.rcontent = <<>>
           /\ last.outcome = "size"

\* the visible regular files directly in the directory p of f
VisibleFilesIn(f, p) ==
    {q \in DOMAIN f : /\ Len(q) > 0
                      /\ Parent(q) = Resolve(f, p)
                      /\ f[q].kind = "file"
                      /\ ~StartsWithDot(Name(q))}

\* C27: the allowed-extension set restricts only create and update: read, get_info and
\* delete of an existing file whose extension is not in the set, and list of its
\* directory, are served as for any other file.
C27_ExtensionOnlyForWrites ==
    /\ (/\ last.op \in {"read", "get_info", "delete"}
        /\ last.safe.ok
        /\ IsFile(pre, last.safe.path)
        /\ ~ValidateFileExtension(last.safe.path))
           => CASE last.op = "read" ->
                       IF Len(pre[Resolve(pre, last.safe.path)].data) <= MaxFileSize
                       THEN /\ last.outcome = "ok"
                            /\ last.rcontent = ReadText(pre[Resolve(pre, last.safe.path)].data)
                       ELSE last.outcome = "io"
                [] last.op = "get_info" ->
                       /\ last.info.present
                       /\ last.info.size = Len(pre[Resolve(pre, last.safe.path)].data)
                [] OTHER -> last.outcome = "ok" /\ ~Exists(fs, last.safe.path)
    /\ (last.op = "list" /\ last.outcome = "ok")
           => \A q \in VisibleFilesIn(pre, last.safe.path) :
                  \E i \in 1..Len(last.listing.files) : last.listing.files[i].name = Name(q)

\* C27 witness: a file with a forbidden extension was read
C27_Witness ==
    /\ last.op = "read"
    /\ last.outcome = "ok"
    /\ ~ValidateFileExtension(last.safe.path)

\* C24: a successful delete of a directory removes the directory and every entry below
\* it, hidden ones included, and nothing else; a successful delete of a path that is a
\* regular file removes exactly that file.
C24_DeleteRemovesTarget ==
    (last.op = "delete" /\ last.outcome = "ok")
        => LET target == Resolve(pre, last.safe.path)
           IN IF IsFile(pre, last.safe.path)
              THEN fs = Without(pre, {target})
              ELSE fs = Without(pre, {q \in DOMAIN pre : IsUnder(q, target)})

\* C25: create_directory on a safe path fails with 'already exists' when anything
\* exists there, whatever recursive is; with recursive false and a missing ancestor it
\* creates nothing and fails with an error kind of its own, not the generic failure;
\* with recursive true it creates the target and its missing ancestors.
C25_CreateDirectoryOutcomes ==
    (last.op = "create_directory" /\ last.safe.ok)
        => LET loc == EntryLoc(pre, last.safe.path)
               there == loc = <<>> \/ loc \in DOMAIN pre
           IN /\ there => (last.outcome = "exists" /\ fs = pre)
              /\ (~there /\ ~last.flag /\ ~Exists(pre, Parent(last.safe.path)))
                     => /\ fs = pre
                        /\ last.outcome \notin {"ok", "io"}
              /\ (~there /\ last.flag /\ ~ThroughNonDir(pre, loc))
                     => /\ last.outcome = "ok"
                        /\ IsDir(fs, last.safe.path)
                        /\ IsDir(fs, Parent(last.safe.path))

\* C26: get_file_info returns none exactly when the path is unsafe or nothing exists
\* there; otherwise the record carries the directory flag, size 0 and no hash for a
\* directory, and the byte size for a regular file.
C26_FileInfoRecord ==
    last.op = "get_info"
        => /\ ~last.info.present <=> (~last.safe.ok \/ ~Exists(pre, last.safe.path))
           /\ last.info.present
                  => /\ last.info.is_directory <=> IsDir(pre, last.safe.path)
                     /\ IsDir(pre, last.safe.path)
                            => (last.info.size = 0 /\ last.info.checksum = NoHash)
                     /\ IsFile(pre, last.safe.path)
                            => last.info.size = Len(pre[Resolve(pre, last.safe.path)].data)
           /\ fs = pre

\* C26 witness: get_file_info answered for a directory
C26_Witness ==
    /\ last.op = "get_info"
    /\ last.info.present
    /\ last.info.is_directory

\* C28: a create or update that fails because the path is unsafe, the extension is not
\* allowed, the content is too large, the target exists or the target is missing leaves
\* the filesystem exactly as it was.
C28_FailedWriteChangesNothing ==
    (/\ last.op \in {"create", "update"}
     /\ last.outcome \in {"unsafe", "extension", "size", "exists", "notfound"})
        => fs = pre

\* C29: the watcher's filter accepts a raw event exactly when the path it publishes
\* (dest_path for a move) resolves under the root with no segment below the root
\* starting with a dot, the verdict of is_path_safe's containment and hidden checks.
C29_FilterMatchesPathSafety ==
    \A i \in 1..Len(handled) :
        ~(handled[i].raw.event_type = "modified" /\ handled[i].raw.is_directory)
            => (handled[i].passed <=> ContainedAndVisible(fs, PublishedPath(handled[i].raw)))

\* C30: a read served while create_file is writing a path that did not exist before
\* observes either that nothing is there or the complete content passed to create,
\* never an empty or partly written file.
C30_ReadSeesAllOrNothing ==
    (/\ writer.active
     /\ writer.absent
     /\ last.op = "read"
     /\ last.safe.ok
     /\ Resolve(fs, last.safe.path) = Resolve(fs, writer.safe.path))
        => LET done == WriteFile(fs, writer.safe.path, Encode(writer.content, writer.enc)).fs
               whole == ReadFile(done, last.cand)
           IN \/ last.outcome = "forbidden"
              \/ /\ last.outcome = whole.outcome
                 /\ last.rcontent = whole.content

\* C31: update of an existing file writes only when the extension and the size pass;
\* then the content is replaced and a following read returns the new content; when
\* either check fails the existing content is unchanged.
C31_UpdateReplacesContent ==
    (last.op = "update" /\ last.safe.ok /\ IsFile(pre, last.safe.path))
        => IF /\ ValidateFileExtension(last.safe.path)
              /\ ValidateFileSize(Len(Encode(last.content, last.enc)))
           THEN /\ last.outcome = "ok"
                /\ ReadFile(fs, last.cand).outcome = "ok"
                /\ ReadFile(fs, last.cand).content = last.content
           ELSE /\ last.outcome \in {"extension", "size"}
                /\ fs = pre

\* C32: validate_path_operation succeeds exactly when the path is safe and: read, the
\* target is an existing readable regular file; write, the target is an existing
\* writable regular file or is absent under an existing writable parent directory, and
\* its extension is allowed; delete, the target exists and its parent is writable. A
\* denial carries the reason of its own kind.
C32_ValidatePathOperation ==
    last.op \in {"validate_read", "validate_write", "validate_delete"}
        => LET path == last.safe.path
               readable == Exists(pre, path) /\ IsFile(pre, path) /\ OsAccess(pre, path)
               writable == \/ IsFile(pre, path) /\ OsAccess(pre, path)
                           \/ /\ ~Exists(pre, path)
                              /\ IsDir(pre, Parent(path))
                              /\ OsAccess(pre, Parent(path))
               deletable == Exists(pre, path) /\ OsAccess(pre, Parent(path))
               expected == IF ~IsPathSafe(pre, path) THEN "unsafe"
                           ELSE CASE last.op = "validate_read" ->
                                         IF readable THEN "ok" ELSE "unreadable"
                                  [] last.op = "validate_write" ->
                                         IF ~writable THEN "unwritable"
                                         ELSE IF ~ValidateFileExtension(path) THEN "extension"
                                         ELSE "ok"
                                  [] OTHER -> IF deletable THEN "ok" ELSE "undeletable"
           IN /\ last.outcome = expected
              /\ fs = pre

\* the names of the entries of a listing partition
ListedNames(infos) == {infos[i].name : i \in 1..Len(infos)}

\* a listing partition is in ascending order of lower-cased name
SortedByLowerName(infos) ==
    \A i, j \in 1..Len(infos) : i < j => ~StrLess(Lower(infos[j].name), Lower(infos[i].name))

\* C33: list_directory returns exactly the non-hidden immediate children of the
\* directory, each once, directories in the directories partition and everything else
\* in files, each partition sorted ascending by lower-cased name.
C33_ListingIsTheChildren ==
    (last.op = "list" /\ last.outcome = "ok")
        => LET dir == Resolve(pre, last.safe.path)
               kids == {Name(q) : q \in {q \in DOMAIN pre : /\ Len(q) > 0
                                                            /\ Parent(q) = dir
                                                            /\ ~StartsWithDot(Name(q))}}
               files == last.listing.files
               directories == last.listing.directories
           IN /\ ListedNames(files) \cup ListedNames(directories) = kids
              /\ Len(files) + Len(directories) = Cardinality(kids)
              /\ \A i \in 1..Len(files) :
                     /\ ~files[i].is_directory
                     /\ ~IsDir(pre, Append(last.safe.path, files[i].name))
              /\ \A i \in 1..Len(directories) :
                     /\ directories[i].is_directory
                     /\ IsDir(pre, Append(last.safe.path, directories[i].name))
              /\ SortedByLowerName(files)
              /\ SortedByLowerName(directories)

\* C33 witness: the listed directory has a grandchild and a hidden child, and its files
\* include an upper-case name that sorts after the lower-case ones
C33_Witness ==
    /\ last.op = "list"
    /\ last.outcome = "ok"
    /\ Len(last.listing.files) >= 2
    /\ last.listing.files[Len(last.listing.files)].name = NUpper
    /\ Len(last.listing.directories) >= 2
    /\ \E q \in DOMAIN pre : Len(q) > 1 /\ Parent(Parent(q)) = Resolve(pre, last.safe.path)
    /\ \E q \in DOMAIN pre : Parent(q) = Resolve(pre, last.safe.path) /\ StartsWithDot(Name(q))

\* the number of bytes the content of the last call encodes to
LastBytes == Len(Encode(last.content, last.enc))

\* C34: validate_file_size(n) is true exactly when 0 <= n <= max_file_size; create and
\* update accept content of exactly max_file_size bytes and empty content, and reject
\* content of max_file_size + 1 bytes.
C34_SizeLimitInclusive ==
    /\ last.op = "validate_size"
           => (last.outcome = "ok" <=> (0 <= last.size /\ last.size <= MaxFileSize))
    /\ (last.op \in {"create", "update"} /\ last.safe.ok)
           => /\ last.outcome = "size" => LastBytes > MaxFileSize
              /\ LastBytes > MaxFileSize => last.outcome \in {"size", "notfound", "io"}
              /\ (LastBytes > MaxFileSize /\ last.op = "create") => last.outcome = "size"
              /\ (LastBytes <= MaxFileSize /\ ~Exists(pre, last.safe.path)
                      /\ (last.op = "update" => last.flag))
                     => /\ last.outcome = "ok"
                        /\ Len(fs[Resolve(fs, last.safe.path)].data) = LastBytes

\* C34 witness: a create of exactly max_file_size bytes was accepted
C34_Witness ==
    /\ last.op = "create"
    /\ last.outcome = "ok"
    /\ LastBytes = MaxFileSize
    /\ Len(fs[Resolve(fs, last.safe.path)].data) = MaxFileSize

\* the text after the last dot of a name; the name has a dot
TextAfterLastDot(name) == SubSeq(name, LastDot(name) + 1, Len(name))

\* C35 as stated: validate_file_extension is true for every path when the allowed set
\* is empty, and otherwise exactly when the text after the last dot of the final
\* segment, lower-cased, is in the set.
C35_Original ==
    last.op = "validate_extension"
        => (last.outcome = "ok"
               <=> \/ last.flag
                   \/ /\ LastDot(last.cand) > 0
                      /\ Lower(TextAfterLastDot(last.cand)) \in AllowedExtensions)

\* C35 amended: validate_file_extension is true for every path when the allowed set is
\* empty, and otherwise exactly when the final segment has a dot that is not its first
\* character and the text after its last dot, lower-cased, is in the set.
C35_Amended ==
    last.op = "validate_extension"
        => (last.outcome = "ok"
               <=> \/ last.flag
                   \/ /\ LastDot(last.cand) > 1
                      /\ Lower(TextAfterLastDot(last.cand)) \in AllowedExtensions)

\* C35 witness: under the non-empty set an upper-case extension was accepted
C35_Witness ==
    /\ last.op = "validate_extension"
    /\ ~last.flag
    /\ last.outcome = "ok"
    /\ last.cand # Lower(last.cand)

\* C36: after any sequence of operations, a delete with an empty path and a batch
\* delete without a path included, the sandbox root directory still exists.
C36_RootRemains == BaseDir \in DOMAIN fs /\ fs[BaseDir].kind = "dir"

\* C37: of two concurrent create requests with overwrite=false for the same path, absent
\* before, at most one succeeds and the other fails with 'already exists'; the file
\* ends with the content of the one that succeeded.
C37_OneCreateWins ==
    \A i, j \in Creators :
        (/\ i # j
         /\ creators[i].stage = "done"
         /\ creators[j].stage = "done"
         /\ creators[i].cand = creators[j].cand
         /\ creators[i].outcome = "ok"
         /\ ~Exists(OpsLayout, creators[i].path))
            => /\ creators[j].outcome = "exists"
               /\ fs[Resolve(fs, creators[i].path)].data
                      = Encode(creators[i].content, creators[i].enc)

\* how many times event t is among the items of a queue
Occurrences(items, t) == Cardinality({k \in 1..Len(items) : items[k] = t})

\* C38: whatever is subscribed or unsubscribed while a publish is suspended on a full
\* queue, every other queue registered from before the publish until its end has
\* received the event exactly once: here, a queue nothing was taken from holds it once.
C38_RegisteredQueueReceivesOnce ==
    \A t \in 1..Len(tasks), q \in 1..Len(queues) :
        (/\ tasks[t].state = "done"
         /\ q <= tasks[t].born
         /\ queues[q].unsubscribed = "never"
         /\ queues[q].taken = 0)
            => Occurrences(queues[q].items, t) = 1

\* the missing directories above loc that g has and f has not
MadeAncestors(f, g, loc) ==
    {q \in DOMAIN g \ DOMAIN f : IsUnder(loc, q) /\ q # loc /\ g[q].kind = "dir"}

\* what a path shows: nothing, a directory, or the bytes of the file it leads to
PathView(f, path) ==
    IF ~Exists(f, path) THEN <<"absent">>
    ELSE IF IsDir(f, path) THEN <<"dir">>
    ELSE <<"file", f[Resolve(f, path)].data>>

\* C39 as stated: after a successful create, update or delete of p, every path under
\* the root other than p, its ancestors (create, update) and its descendants (delete)
\* exists and holds the same content as before; read, list and get_info change nothing.
C39_Original ==
    /\ (last.op \in {"create", "update", "delete"} /\ last.outcome = "ok")
           => \A q \in DOMAIN pre \cup DOMAIN fs :
                  (/\ IsUnder(q, BaseDir)
                   /\ ~IsUnder(last.safe.path, q)
                   /\ ~IsUnder(q, last.safe.path))
                      => PathView(pre, q) = PathView(fs, q)
    /\ last.op \in {"read", "list", "get_info"} => fs = pre

\* C39 amended: a successful create or update of p changes only the file p leads to and
\* the missing directories above it, a successful delete only the directory entry p
\* names and what lies below it; every other directory entry exists and holds the same
\* as before; read, list and get_info change nothing.
C39_OnlyTheTargetChanges ==
    /\ (last.op \in {"create", "update"} /\ last.outcome = "ok")
           => LET loc == Resolve(fs, last.safe.path)
              IN Changed(pre, fs) \subseteq ({loc} \cup MadeAncestors(pre, fs, loc))
    /\ (last.op = "delete" /\ last.outcome = "ok")
           => Changed(pre, fs)
                  \subseteq {q \in DOMAIN pre : IsUnder(q, EntryLoc(pre, last.safe.path))}
    /\ last.op \in {"read", "list", "get_info"} => fs = pre

\* C39 witness: a directory with entries below it was deleted and entries beside it
\* under the root are still there
C39_Witness ==
    /\ last.op = "delete"
    /\ last.outcome = "ok"
    /\ \E q \in DOMAIN pre : IsUnder(q, EntryLoc(pre, last.safe.path)) /\ q \notin DOMAIN fs
                               /\ q # EntryLoc(pre, last.safe.path)
    /\ \E q \in DOMAIN fs : IsUnder(q, BaseDir) /\ q # BaseDir

\* the listed entries whose directory entry is a symlink that leads outside the root
OutsideEntries ==
    LET loc == Resolve(pre, last.safe.path)
        listed == Range(last.listing.files) \cup Range(last.listing.directories)
    IN {i \in listed : /\ Append(loc, i.name) \in DOMAIN pre
                       /\ pre[Append(loc, i.name)].kind = "link"
                       /\ ~IsUnder(Resolve(pre, Append(loc, i.name)), BaseDir)}

\* C40: a listing never carries the size or the content hash of a file outside the
\* root: a child symlink whose target lies outside the root is left out or listed
\* with size 0 and no hash.
C40_NoOutsideSizeOrHash ==
    (last.op = "list" /\ last.outcome = "ok")
        => \A i \in OutsideEntries : i.size = 0 /\ i.checksum = NoHash

=============================================================================
